---- MODULE Spec2Model ----
(***************************************************************************)
(* The CV rewriting optimisation loop of the repository:                   *)
(*   - retry_on_llm_failure  (shared/helpers/retry_decorator.py)           *)
(*   - Enhancer.enhance      (features/CV_rewriter/src/services)           *)
(*   - JobParser.parse       (features/CV_rewriter/src/services)           *)
(*   - CVRewriter.rewrite    (features/CV_rewriter/src/core/orchestration) *)
(*                                                                         *)
(* Texts are sequences of one-character strings.  Similarities are kept in *)
(* hundredths, rounded down (0.97 is 97), raw cosines in ten-thousandths.  *)
(* Delays are kept in half time-units (0.5 is 1).                          *)
(***************************************************************************)
EXTENDS Integers, Sequences, FiniteSets, TLC

VARIABLES
    pc,                  \* position of the one invocation that is running
    MAX_ITER,            \* shared/utils/constants.py: the iteration budget
    anonymized_cv_text,  \* rewrite's argument
    jobs_text,           \* rewrite's argument
    personal_data,       \* rewrite's argument
    job_text_parts,      \* jobs_text.split("\n\n---\n\n")
    part_idx,            \* index of the part the for loop of line 89 is at
    job_descriptions,    \* the parsed job descriptions
    current_cv_text,     \* the working document
    current_similarity,  \* the similarity of the working document
    initial_score,       \* the similarity before the first iteration
    iteration,           \* the loop variable of line 114
    cv_embedding,        \* _calculate_similarity: the first embedding
    w,                   \* the retry wrapper of the wrapped call in flight
    final,               \* the FinalCV that rewrite returned
    raised,              \* the exception that left rewrite (or the wrapper)
    parse_gen,           \* observer: generator calls issued by JobParser.parse
    enh_gen,             \* observer: generator calls issued by Enhancer.enhance
    trace,               \* observer: outcomes of a wrapped callable, in order
    embed_calls,         \* observer: embedding calls issued
    parse_calls,         \* observer: JobParser.parse calls started
    enh_calls,           \* observer: Enhancer.enhance calls started
    enh_done,            \* observer: Enhancer.enhance calls that returned
    last_enhanced,       \* observer: content of the last EnhancedCV returned
    compared,            \* observer: the value last tested against the threshold
    hit,                 \* observer: first iteration whose similarity met it
    assembled,           \* observer: Assembler.assemble was invoked
    pos,                 \* concurrent rewrites: where each coroutine stands
    frames,              \* concurrent rewrites: the locals of each coroutine
    solo,                \* observer: each concurrent rewrite replayed alone
    cancel_at,           \* observer: the calls issued when a cancellation came
    sim_raised,          \* observer: what line 209 caught in the last similarity
    call,                \* a function applied on its own: its name and arguments
    result,              \* a function applied on its own: what it came to
    scored_text          \* observer: the document line 199 last had embedded

vars == << pc, MAX_ITER, anonymized_cv_text, jobs_text, personal_data,
           job_text_parts, part_idx, job_descriptions, current_cv_text,
           current_similarity, initial_score, iteration, cv_embedding, w,
           final, raised, parse_gen, enh_gen, trace, embed_calls, parse_calls,
           enh_calls, enh_done, last_enhanced, compared, hit, assembled,
           pos, frames, solo, cancel_at, sim_raised, call, result, scored_text >>

\* the state of concurrent rewrites, of a cancellation and of the handler
\* of _calculate_similarity
aux_vars == << pos, frames, solo, cancel_at, sim_raised, call, result, scored_text >>

\* generator (provider) calls issued
gen_calls == parse_gen + enh_gen

-----------------------------------------------------------------------------
(* Bounds of the exploration *)

MaxRetriesBound == 4
BelowZeroBound == 1
MaxIterBound == 3

-----------------------------------------------------------------------------
(* Text helpers: Python's str operations on sequences of characters *)

Rep(c, n) == [i \in 1..n |-> c]

IsSpace(c) == c \in {" ", "\n", "\t"}

RECURSIVE LStrip(_)
LStrip(s) ==
    IF s = <<>> THEN s
    ELSE IF IsSpace(Head(s)) THEN LStrip(Tail(s)) ELSE s

RECURSIVE RStrip(_)
RStrip(s) ==
    IF s = <<>> THEN s
    ELSE IF IsSpace(s[Len(s)]) THEN RStrip(SubSeq(s, 1, Len(s) - 1)) ELSE s

\* str.strip()
Strip(s) == RStrip(LStrip(s))

\* s[i:] of Python, i counted from 0
From(s, i) == SubSeq(s, i + 1, Len(s))

\* s.startswith(sub)
StartsWith(s, sub) ==
    /\ Len(sub) <= Len(s)
    /\ SubSeq(s, 1, Len(sub)) = sub

\* s.find(sub): the 0-based index of the first occurrence, -1 when absent
Find(s, sub) ==
    LET hits == { i \in 0..(Len(s) - Len(sub)) : StartsWith(From(s, i), sub) }
    IN IF hits = {} THEN -1
       ELSE CHOOSE i \in hits : \A j \in hits : i <= j

\* sub in s
Contains(s, sub) == Find(s, sub) # -1

\* s.count(c) for a single character
Count(s, c) == Cardinality({ i \in 1..Len(s) : s[i] = c })

\* s.split(sep)
RECURSIVE Split(_, _)
Split(s, sep) ==
    LET i == Find(s, sep)
    IN IF i = -1 THEN << s >>
       ELSE << SubSeq(s, 1, i) >> \o Split(From(s, i + Len(sep)), sep)

-----------------------------------------------------------------------------
(* Exceptions and values *)

NoExc == [type |-> "None", id |-> 0]
NoneValue == [kind |-> "None"]

Exc(t, n) == [type |-> t, id |-> n]
Return(v) == [kind |-> "return", value |-> v, exc |-> NoExc]
Raise(e) == [kind |-> "raise", value |-> NoneValue, exc |-> e]

-----------------------------------------------------------------------------
(* retry_on_llm_failure *)

\* except (BadLLMResponseError, ProviderError)
Retryable(e) == e.type \in {"BadLLMResponseError", "ProviderError"}

\* wrapper, before the first pass of the loop; an empty range(max_retries)
\* falls through to the end with last_exception None and returns None
NewWrapper(max_retries, func, args) ==
    [ max_retries    |-> max_retries,
      func           |-> func,
      args           |-> args,
      attempt        |-> 0,
      status         |-> IF 0 < max_retries THEN "calling" ELSE "returned",
      last_exception |-> NoExc,
      value          |-> NoneValue,
      exc            |-> NoExc,
      calls          |-> 0,
      last_out       |-> Raise(NoExc),
      sleeps         |-> << >> ]

\* no wrapped call is in flight: the frame of a wrapper is gone once it returned
NoWrapper == NewWrapper(0, "none", NoneValue)

\* a wrapper that makes one attempt more than max_retries
wrapper_attempt_extra(ws, out) ==
    LET w1 == [ws EXCEPT !.calls = @ + 1, !.last_out = out]
        w2 == [w1 EXCEPT !.last_exception = out.exc]
    IN IF out.kind = "return"
       THEN [w1 EXCEPT !.status = "returned", !.value = out.value]
       ELSE IF Retryable(out.exc)
            THEN IF ws.attempt < ws.max_retries
                 THEN [w2 EXCEPT !.status = "sleeping"]
                 ELSE [w2 EXCEPT !.status = "raised", !.exc = w2.last_exception]
            ELSE [w1 EXCEPT !.status = "raised", !.exc = out.exc]

\* a wrapper that keeps only the exception of the first failed attempt
wrapper_attempt_first(ws, out) ==
    LET w1 == [ws EXCEPT !.calls = @ + 1, !.last_out = out]
        w2 == [w1 EXCEPT !.last_exception =
                  IF @ = NoExc THEN out.exc ELSE @]
    IN IF out.kind = "return"
       THEN [w1 EXCEPT !.status = "returned", !.value = out.value]
       ELSE IF Retryable(out.exc)
            THEN IF ws.attempt < ws.max_retries - 1
                 THEN [w2 EXCEPT !.status = "sleeping"]
                 ELSE [w2 EXCEPT !.status = "raised", !.exc = w2.last_exception]
            ELSE [w1 EXCEPT !.status = "raised", !.exc = out.exc]

\* a wrapper that gives up one attempt early
wrapper_attempt_short(ws, out) ==
    LET w1 == [ws EXCEPT !.calls = @ + 1, !.last_out = out]
        w2 == [w1 EXCEPT !.last_exception = out.exc]
    IN IF out.kind = "return"
       THEN [w1 EXCEPT !.status = "returned", !.value = out.value]
       ELSE IF Retryable(out.exc)
            THEN IF ws.attempt < ws.max_retries - 2
                 THEN [w2 EXCEPT !.status = "sleeping"]
                 ELSE [w2 EXCEPT !.status = "raised", !.exc = w2.last_exception]
            ELSE [w1 EXCEPT !.status = "raised", !.exc = out.exc]

\* a wrapper that retries on every exception
wrapper_attempt_all(ws, out) ==
    LET w1 == [ws EXCEPT !.calls = @ + 1, !.last_out = out]
        w2 == [w1 EXCEPT !.last_exception = out.exc]
    IN IF out.kind = "return"
       THEN [w1 EXCEPT !.status = "returned", !.value = out.value]
       ELSE IF ws.attempt < ws.max_retries - 1
            THEN [w2 EXCEPT !.status = "sleeping"]
            ELSE [w2 EXCEPT !.status = "raised", !.exc = w2.last_exception]

\* a wrapper that goes on to the next attempt after a normal return
wrapper_attempt_noreturn(ws, out) ==
    LET w1 == [ws EXCEPT !.calls = @ + 1, !.last_out = out]
        w2 == [w1 EXCEPT !.last_exception = out.exc]
    IN IF out.kind = "return"
       THEN IF ws.attempt < ws.max_retries - 1
            THEN [w1 EXCEPT !.status = "sleeping"]
            ELSE [w1 EXCEPT !.status = "returned", !.value = out.value]
       ELSE IF Retryable(out.exc)
            THEN IF ws.attempt < ws.max_retries - 1
                 THEN [w2 EXCEPT !.status = "sleeping"]
                 ELSE [w2 EXCEPT !.status = "raised", !.exc = w2.last_exception]
            ELSE [w1 EXCEPT !.status = "raised", !.exc = out.exc]

\* one pass of the loop body, lines 27-41: the invocation of func with
\* outcome out, and what the wrapper does with it
wrapper_attempt(ws, out) ==
    LET w1 == [ws EXCEPT !.calls = @ + 1, !.last_out = out]
        w2 == [w1 EXCEPT !.last_exception = out.exc]
    IN IF out.kind = "return"
       THEN [w1 EXCEPT !.status = "returned", !.value = out.value]
       ELSE IF Retryable(out.exc)
            THEN IF ws.attempt < ws.max_retries - 1
                 THEN [w2 EXCEPT !.status = "sleeping"]
                 ELSE [w2 EXCEPT !.status = "raised", !.exc = w2.last_exception]
            ELSE [w1 EXCEPT !.status = "raised", !.exc = out.exc]

\* a wrapper whose retry of enhance counts as a further iteration
wrapper_sleep_recount(ws) ==
    [ws EXCEPT !.status = "calling",
               !.attempt = @ + 1,
               !.sleeps = Append(@, 2 ^ ws.attempt),
               !.args = IF ws.func = "enhance"
                        THEN [@ EXCEPT !.iteration = @ + 1]
                        ELSE @]

\* a wrapper whose delay grows by 0.5 at every retry
wrapper_sleep_linear(ws) ==
    [ws EXCEPT !.status = "calling",
               !.attempt = @ + 1,
               !.sleeps = Append(@, ws.attempt + 1)]

\* line 35: await asyncio.sleep(0.5 * (2 ** attempt)), then the next pass;
\* the delays are kept in halves of a time unit
wrapper_sleep(ws) ==
    [ws EXCEPT !.status = "calling",
               !.attempt = @ + 1,
               !.sleeps = Append(@, 2 ^ ws.attempt)]

-----------------------------------------------------------------------------
(* Program constants *)

\* shared/utils/constants.py: SIMILARITY_THRESHOLD = 0.97, in hundredths
SIMILARITY_THRESHOLD == 97

\* @retry_on_llm_failure(max_retries=3) of Enhancer.enhance
EnhanceMaxRetries == 3

\* @retry_on_llm_failure(max_retries=3) of JobParser.parse
ParseMaxRetries == 3

\* the separator of jobs_text.split("\n\n---\n\n")
JOB_SEPARATOR == << "\n", "\n", "-", "-", "-", "\n", "\n" >>

-----------------------------------------------------------------------------
(* strip_thinking_block, strip_code_blocks, LatexValidator *)

THINK_MARK == << "<", "/", "t", "h", "i", "n", "k" >>
THINK_MARK_LEN == 8

\* text[text.find("</think") + len("</think>"):].strip() if "</think" in text
\* else text.strip()
strip_thinking_block(text) ==
    IF Contains(text, THINK_MARK)
    THEN Strip(From(text, Find(text, THINK_MARK) + THINK_MARK_LEN))
    ELSE Strip(text)

\* the backquote character, which a TLA+ string cannot hold
BQ == "bq"

FENCE == << BQ, BQ, BQ >>

Letters == { "a", "e", "l", "t", "x", "s", "c", "i", "o", "n", "m", "j", "k",
             "h", "b", "u", "f" }

\* \w of the re module, on the characters the texts are made of
IsWord(c) == c \in Letters \cup {"_"}

\* str.isalpha()
IsAlpha(s) == s # <<>> /\ \A i \in 1..Len(s) : s[i] \in Letters

\* s.endswith(sub)
EndsWith(s, sub) ==
    /\ Len(sub) <= Len(s)
    /\ SubSeq(s, Len(s) - Len(sub) + 1, Len(s)) = sub

\* number of leading word characters of s
RECURSIVE WordPrefix(_)
WordPrefix(s) ==
    IF s # <<>> /\ IsWord(Head(s)) THEN 1 + WordPrefix(Tail(s)) ELSE 0

\* strip_code_blocks(text, "latex"), lines 27-78
strip_code_blocks(text0) ==
    LET text  == Strip(text0)
        rest  == From(text, 3)
        k     == WordPrefix(rest)
        \* pattern 1: ^FENCE[\w]*\n(.*?)\nFENCE$
        p1    == /\ StartsWith(text, FENCE)
                 /\ Len(rest) > k /\ rest[k + 1] = "\n"
                 /\ EndsWith(text, << "\n" >> \o FENCE)
                 /\ Len(text) - 4 >= 3 + k + 1
        g1    == SubSeq(text, 3 + k + 2, Len(text) - 4)
        \* pattern 2: ^FENCE\n?(.*?)\n?FENCE$
        p2    == /\ StartsWith(text, FENCE)
                 /\ EndsWith(rest, FENCE)
        body2 == IF rest # <<>> /\ Head(rest) = "\n" /\ Len(rest) >= 4
                 THEN Tail(rest) ELSE rest
        cut2  == SubSeq(body2, 1, Len(body2) - 3)
        g2    == IF cut2 # <<>> /\ cut2[Len(cut2)] = "\n"
                 THEN SubSeq(cut2, 1, Len(cut2) - 1) ELSE cut2
        \* pattern 3: the first code block anywhere in the text
        parts == Split(text, FENCE)
        cont  == parts[2]
        nl    == Find(cont, << "\n" >>)
        line0 == Strip(SubSeq(cont, 1, nl))
        g3    == IF nl # -1 /\ IsAlpha(line0) /\ Len(line0) < 20
                 THEN From(cont, nl + 1) ELSE cont
    IN IF p1 THEN Strip(g1)
       ELSE IF p2 THEN Strip(g2)
       ELSE IF Contains(text, FENCE) /\ Len(parts) >= 3 THEN Strip(g3)
       ELSE text

BS == "\\"

required_commands ==
    { << BS, "s", "e", "c", "t", "i", "o", "n" >>,
      << BS, "s", "u", "b", "s", "e", "c", "t", "i", "o", "n" >>,
      << BS, "t", "e", "x", "t", "b", "f" >>,
      << BS, "t", "e", "x", "t", "i", "t" >>,
      << BS, "i", "t", "e", "m" >> }

\* a validator that does not count the braces
validate_latex_nobraces(latex_content) ==
    /\ latex_content # <<>>
    /\ Strip(latex_content) # <<>>
    /\ \E cmd \in required_commands : Contains(latex_content, cmd)

\* LatexValidator.validate_latex: is_valid
validate_latex(latex_content) ==
    /\ latex_content # <<>>
    /\ Strip(latex_content) # <<>>
    /\ Count(latex_content, "{") = Count(latex_content, "}")
    /\ \E cmd \in required_commands : Contains(latex_content, cmd)

-----------------------------------------------------------------------------
(* SimilarityCalculator.cosine_similarity and CVRewriter._calculate_similarity *)

MaxNorm == 25

RECURSIVE SumSq(_)
SumSq(v) == IF v = <<>> THEN 0 ELSE Head(v) * Head(v) + SumSq(Tail(v))

RECURSIVE Dot(_, _)
Dot(v1, v2) ==
    IF v1 = <<>> THEN 0 ELSE Head(v1) * Head(v2) + Dot(Tail(v1), Tail(v2))

\* np.linalg.norm; the vectors of the model have whole norms
Norm(v) == CHOOSE n \in 0..MaxNorm : n * n = SumSq(v)

\* a cosine that divides by the norms without looking at them
cosine_similarity_unguarded(vec1, vec2) ==
    IF Len(vec1) = 0 \/ Len(vec2) = 0 THEN Return(0)
    ELSE IF Len(vec1) # Len(vec2) THEN Raise(Exc("ValueError", 0))
    ELSE IF Norm(vec1) = 0 \/ Norm(vec2) = 0
         THEN Raise(Exc("ZeroDivisionError", 0))
    ELSE Return((Dot(vec1, vec2) * 10000) \div (Norm(vec1) * Norm(vec2)))

\* cosine_similarity, in ten-thousandths; np.dot raises ValueError when the
\* two vectors differ in length
cosine_similarity(vec1, vec2) ==
    IF Len(vec1) = 0 \/ Len(vec2) = 0 THEN Return(0)
    ELSE IF Len(vec1) # Len(vec2) THEN Raise(Exc("ValueError", 0))
    ELSE IF Norm(vec1) = 0 \/ Norm(vec2) = 0 THEN Return(0)
    ELSE Return((Dot(vec1, vec2) * 10000) \div (Norm(vec1) * Norm(vec2)))

\* line 207: 1 / (1 + exp(-((similarity * 1.41 + 0.27) ** 1.12))) * 1.46 - 0.23
\* in hundredths rounded down, at the cosines the vectors of the model have:
\*   0.0 -> 0.5838, 0.6 -> 0.8737, 56/65 -> 0.9758, 60/65 -> 0.9965, 1.0 -> 1.0207
\*   -36/325 -> 0.5319, 16/65 -> 0.7067, 33/65 -> 0.8327, 0.8 -> 0.9537,
\*   117/125 -> 1.0007, 0.96 -> 1.0084, 63/65 -> 1.0113, 323/325 -> 1.0188
adjusted(similarity) ==
    CASE similarity = -1108 -> 53
      [] similarity = 0     -> 58
      [] similarity = 2461  -> 70
      [] similarity = 5076  -> 83
      [] similarity = 6000  -> 87
      [] similarity = 8000  -> 95
      [] similarity = 8615  -> 97
      [] similarity = 9230  -> 99
      [] similarity = 9360  -> 100
      [] similarity = 9600  -> 100
      [] similarity = 9692  -> 101
      [] similarity = 9938  -> 101
      [] similarity = 10000 -> 102

\* line 207: similarity * 1.41 + 0.27 is negative below a cosine of -0.1915,
\* and a negative float to the power 1.12 is a complex number
power_is_complex(similarity) == similarity * 141 + 270000 < 0

\* line 207 where the power is complex: the real part of adjusted, in
\* hundredths rounded down
\*   -1.0 -> 0.1284-0.1184j, -0.96 -> 0.1466-0.1152j, -56/65 -> 0.1927-0.1053j,
\*   -0.8 -> 0.2221-0.0979j, -0.6 -> 0.3191-0.0682j, -33/65 -> 0.3635-0.0525j,
\*   -0.28 -> 0.4670-0.0130j
adjusted_real_part(similarity) ==
    CASE similarity = -10000 -> 12
      [] similarity = -9600  -> 14
      [] similarity = -8616  -> 19
      [] similarity = -8000  -> 22
      [] similarity = -6000  -> 31
      [] similarity = -5077  -> 36
      [] similarity = -2800  -> 46

Min(a, b) == IF a < b THEN a ELSE b

\* a scorer without the clamp of line 208
calculate_similarity_unclamped(cv_emb, job_emb) ==
    LET c == cosine_similarity(cv_emb, job_emb)
    IN IF c.kind = "raise" THEN 0 ELSE adjusted(c.value)

\* a handler that scores a failed computation as a cosine of 0
calculate_similarity_degenerate(cv_emb, job_emb) ==
    LET c == cosine_similarity(cv_emb, job_emb)
    IN IF c.kind = "raise" THEN Min(adjusted(0), 100)
       ELSE Min(adjusted(c.value), 100)

\* _calculate_similarity once both embeddings are there, lines 202-211:
\* min(adjusted, 1.0), and 0.0 on ValueError or TypeError
calculate_similarity(cv_emb, job_emb) ==
    LET c == cosine_similarity(cv_emb, job_emb)
    IN IF c.kind = "raise" THEN 0 ELSE Min(adjusted(c.value), 100)

\* lines 209-211: the type of the exception of lines 199-208 that the
\* handler catches, "None" when there is none
similarity_caught(cv_emb, job_emb) ==
    LET c == cosine_similarity(cv_emb, job_emb)
    IN IF c.kind = "raise" THEN c.exc.type ELSE "None"

Float(x) == [ kind |-> "float", value |-> x ]
Complex(re) == [ kind |-> "complex", value |-> re ]

\* line 208 on a complex adjusted: min evaluates 1.0 < adjusted, which the
\* complex scalar of numpy answers by comparing real parts first, so that
\* adjusted is returned; a scalar type without an order raises TypeError,
\* which line 209 turns into 0.0
min_of_complex(re) == { Complex(re), Float(0) }

\* _calculate_similarity once both embeddings are there, lines 202-211, at
\* any cosine: the values the call can return
similarity_outcomes(cv_emb, job_emb) ==
    LET c == cosine_similarity(cv_emb, job_emb)
    IN IF c.kind = "raise" THEN { Float(0) }
       ELSE IF power_is_complex(c.value)
            THEN min_of_complex(adjusted_real_part(c.value))
       ELSE { Float(calculate_similarity(cv_emb, job_emb)) }

\* lines 176-178: the rescaling of original_score, at the values above
normalize_original(score) ==
    CASE score = 0   -> 0
      [] score = 58  -> 37
      [] score = 87  -> 50
      [] score = 97  -> 53
      [] score = 99  -> 54
      [] score = 100 -> 54

\* lines 180-182: the rescaling of final_similarity, at the values above
normalize_final(score) ==
    CASE score = 0   -> 0
      [] score = 58  -> 59
      [] score = 87  -> 85
      [] score = 97  -> 94
      [] score = 99  -> 96
      [] score = 100 -> 97

-----------------------------------------------------------------------------
(* Enhancer.enhance and JobParser.parse: one invocation of the wrapped body *)

BadLLM(n) == Exc("BadLLMResponseError", n)

EnhancedCV(content, iteration_, similarity_score) ==
    [ kind |-> "EnhancedCV", content |-> content, iteration |-> iteration_,
      similarity_score |-> similarity_score ]

\* Enhancer.enhance, lines 121-139, on the text of a reply: the two strips
\* and the checks; ok is whether the checks pass
checked_text(text) ==
    LET enhanced_text == strip_code_blocks(strip_thinking_block(text))
    IN [ ok      |-> /\ Len(Strip(enhanced_text)) >= 20
                     /\ validate_latex(enhanced_text),
         content |-> Strip(enhanced_text) ]

\* Enhancer.enhance, lines 89-150; reply is what self.provider(prompt) gives
\* and checked what lines 121-139 make of its text, n numbers the exception
enhance(args, reply, checked, n) ==
    IF args.job_descriptions = <<>> THEN Raise(Exc("ValueError", n))
    ELSE IF reply.kind = "ProviderError" THEN Raise(Exc("ProviderError", n))
    ELSE IF reply.kind # "text" THEN Raise(BadLLM(n))
    ELSE IF ~ checked.ok THEN Raise(BadLLM(n))
    ELSE Return(EnhancedCV(checked.content, args.iteration,
                           args.similarity_score))

\* does this invocation of enhance reach line 119, the generator call
enhance_calls_provider(args) == args.job_descriptions # <<>>

JobDescription(raw) == [ kind |-> "JobDescription", raw_content |-> raw ]

\* JobParser.parse, lines 41-73; the reply of the generator is taken by what
\* _parse_response and the JobDescription constructor make of it: "object"
\* (a JSON object with usable fields), "malformed" (BadLLMResponseError of
\* _parse_response), "bad_fields" (the model's ValidationError, a ValueError)
parse(args, reply, n) ==
    IF Len(Strip(args.raw_job_description)) < 10
    THEN Raise(Exc("ValueError", n))
    ELSE IF reply.kind = "ProviderError" THEN Raise(Exc("ProviderError", n))
    ELSE IF reply.kind = "malformed" THEN Raise(BadLLM(n))
    ELSE IF reply.kind = "bad_fields" THEN Raise(Exc("ValidationError", n))
    ELSE Return(JobDescription(args.raw_job_description))

\* does this invocation of parse reach line 51, the generator call
parse_calls_provider(args) == Len(Strip(args.raw_job_description)) >= 10

-----------------------------------------------------------------------------
(* Assembler *)

PREFERRED_ORDER ==
    << "name", "email", "phone", "location", "linkedin", "github",
       "portfolio", "website" >>

BEGIN_CENTER ==
    << BS, "b", "e", "g", "i", "n", "{", "c", "e", "n", "t", "e", "r", "}" >>

END_CENTER ==
    << BS, "e", "n", "d", "{", "c", "e", "n", "t", "e", "r", "}" >>

VSPACE_02 ==
    << BS, "v", "s", "p", "a", "c", "e", "{", "0", ".", "2", "c", "m", "}" >>

NAME_OPEN ==
    << "{", BS, "L", "A", "R", "G", "E", " ", BS, "t", "e", "x", "t", "b",
       "f", "{" >>

NAME_CLOSE == << "}", "}" >>

SMALL == << BS, "s", "m", "a", "l", "l" >>

TEXTBF_OPEN == << BS, "t", "e", "x", "t", "b", "f", "{" >>

TEXTBF_CLOSE == << ":", "}", " " >>

TEXTBAR == << " ", BS, "t", "e", "x", "t", "b", "a", "r", "{", "}", " " >>

LINE_BREAK == << BS, BS, "[", "0", ".", "1", "c", "m", "]" >>

RULE_BLOCK ==
    << "\n", "\n", BS, "v", "s", "p", "a", "c", "e", "{", "0", ".", "3", "c",
       "m", "}", "\n", BS, "h", "r", "u", "l", "e", "\n", BS, "v", "s",
       "p", "a", "c", "e", "{", "0", ".", "3", "c", "m", "}", "\n", "\n" >>

ESC_BACKSLASH ==
    << BS, "t", "e", "x", "t", "b", "a", "c", "k", "s", "l", "a", "s", "h",
       "{", "}" >>

ESC_TILDE ==
    << BS, "t", "e", "x", "t", "a", "s", "c", "i", "i", "t", "i", "l", "d",
       "e", "{", "}" >>

ESC_CARET ==
    << BS, "t", "e", "x", "t", "a", "s", "c", "i", "i", "c", "i", "r", "c",
       "u", "m", "{", "}" >>

\* str.replace(c, rep) for a single character c
RECURSIVE Replace(_, _, _)
Replace(s, c, rep) ==
    IF s = <<>> THEN <<>>
    ELSE (IF Head(s) = c THEN rep ELSE << Head(s) >>) \o Replace(Tail(s), c, rep)

\* sep.join(parts)
RECURSIVE Join(_, _)
Join(parts, sep) ==
    IF parts = <<>> THEN <<>>
    ELSE IF Len(parts) = 1 THEN parts[1]
    ELSE parts[1] \o sep \o Join(Tail(parts), sep)

\* Assembler._escape_latex: the backslash first, then the replacements in
\* the order of the dict
escape_latex(text) ==
    LET t0 == Replace(text, BS, ESC_BACKSLASH)
        t1 == Replace(t0, "&", << BS, "&" >>)
        t2 == Replace(t1, "%", << BS, "%" >>)
        t3 == Replace(t2, "$", << BS, "$" >>)
        t4 == Replace(t3, "#", << BS, "#" >>)
        t5 == Replace(t4, "_", << BS, "_" >>)
        t6 == Replace(t5, "{", << BS, "{" >>)
        t7 == Replace(t6, "}", << BS, "}" >>)
        t8 == Replace(t7, "~", ESC_TILDE)
    IN Replace(t8, "^", ESC_CARET)

\* Assembler._format_field_value for a string value
format_field_value(value) == escape_latex(value)

\* Assembler._format_field_name: FIELD_DISPLAY_NAMES, and the title case of
\* a field that is not in it
format_field_name(field) ==
    CASE field = "email"    -> << "E", "m", "a", "i", "l" >>
      [] field = "phone"    -> << "P", "h", "o", "n", "e" >>
      [] field = "location" -> << "L", "o", "c", "a", "t", "i", "o", "n" >>
      [] field = "age"      -> << "A", "g", "e" >>

\* personal_data.get(field) on a dict kept as a sequence of <<field, value>>;
\* an absent field gives the empty value, which is as falsy as None
dict_get(d, field) ==
    LET at == { i \in 1..Len(d) : d[i][1] = field }
    IN IF at = {} THEN <<>> ELSE d[CHOOSE i \in at : TRUE][2]

dict_keys(d) == [ i \in 1..Len(d) |-> d[i][1] ]

InSeq(x, sq) == \E i \in 1..Len(sq) : sq[i] = x

\* lines 144-153: the contact lines, at most three items a line
RECURSIVE contact_lines(_)
contact_lines(items) ==
    IF Len(items) <= 3 THEN << Join(items, TEXTBAR) >>
    ELSE << Join(SubSeq(items, 1, 3), TEXTBAR), LINE_BREAK >>
         \o contact_lines(SubSeq(items, 4, Len(items)))

\* a FinalCV that keeps the defaults of its fields
FinalCV_default(content, iterations_performed, final_similarity) ==
    [ kind                     |-> "FinalCV",
      content                  |-> content,
      iterations_performed     |-> 1,
      final_similarity         |-> 0,
      original_score           |-> 0,
      enhanced_anonymized_text |-> <<>> ]

FinalCV(content, iterations_performed, final_similarity) ==
    [ kind                     |-> "FinalCV",
      content                  |-> content,
      iterations_performed     |-> iterations_performed,
      final_similarity         |-> final_similarity,
      original_score           |-> 0,
      enhanced_anonymized_text |-> <<>> ]

\* an integration that escapes the body as it escapes a field value
integrate_escaped(header, enhanced_content) ==
    IF header # <<>>
    THEN Join(header, << "\n" >>) \o RULE_BLOCK \o escape_latex(enhanced_content)
    ELSE enhanced_content

\* lines 158-162: the header block, the rule, then the body
integrate(header, enhanced_content) ==
    IF header # <<>>
    THEN Join(header, << "\n" >>) \o RULE_BLOCK \o enhanced_content
    ELSE enhanced_content

\* Assembler.assemble, lines 104-168; the personal data of the model has at
\* most one field outside PREFERRED_ORDER, so sorted() has nothing to order
assemble(pd, enhanced_content, iterations_performed, final_similarity) ==
    LET name == dict_get(pd, "name")
        name_lines ==
            IF name # <<>>
            THEN << BEGIN_CENTER,
                    NAME_OPEN \o format_field_value(name) \o NAME_CLOSE,
                    END_CENTER, VSPACE_02 >>
            ELSE <<>>
        IsContact(f) == f # "name" /\ dict_get(pd, f) # <<>>
        IsRemaining(f) == ~ InSeq(f, PREFERRED_ORDER) /\ dict_get(pd, f) # <<>>
        fields == SelectSeq(PREFERRED_ORDER, IsContact)
                  \o SelectSeq(dict_keys(pd), IsRemaining)
        items == [ i \in 1..Len(fields) |->
                     TEXTBF_OPEN \o format_field_name(fields[i]) \o TEXTBF_CLOSE
                     \o format_field_value(dict_get(pd, fields[i])) ]
        contact_block ==
            IF fields # <<>>
            THEN << BEGIN_CENTER, SMALL >> \o contact_lines(items)
                 \o << END_CENTER >>
            ELSE <<>>
        header == name_lines \o contact_block
    IN FinalCV(integrate(header, enhanced_content),
               iterations_performed, final_similarity)

-----------------------------------------------------------------------------
(* The inputs and the replies of the collaborators *)

X == "x"

CvTexts ==
    { << >>,
      << " ", " " >> \o Rep(X, 9) \o << "\n" >>,
      << " " >> \o Rep(X, 10) }

JobsTexts ==
    { << >>,
      << " " >> \o Rep("j", 9) \o << " ", " ", "\n" >>,
      Rep("j", 10),
      Rep("j", 10) \o JOB_SEPARATOR \o Rep("k", 12) \o JOB_SEPARATOR \o << " " >>,
      << " " >> \o JOB_SEPARATOR \o << " " >> \o JOB_SEPARATOR \o << " " >>,
      Rep("j", 10) \o JOB_SEPARATOR \o << "a", "b", "c" >> }

PersonalDatas ==
    { << >>,
      << << "name", << "A", "&" >> >>, << "email", << "a", "_", "b" >> >> >> }

DocA == << BS, "s", "e", "c", "t", "i", "o", "n", "{", "a", "}" >> \o Rep(X, 10)

DocB == << BS, "i", "t", "e", "m", " " >> \o Rep(X, 15)

Text(t) == [ kind |-> "text", text |-> t ]

\* what self.provider(prompt) gives Enhancer.enhance
EnhanceReplies ==
    { Text(DocA),
      Text(<< " " >> \o DocB \o << "\n" >>),
      Text(<< "t", "<", "/", "t", "h", "i", "n", "k", ">", "\n" >> \o DocA),
      Text(FENCE \o << "l", "a", "t", "e", "x", "\n" >> \o DocB
           \o << "\n" >> \o FENCE),
      Text(<< BS, "i", "t", "e", "m", " ", X >>),
      Text(<< BS, "s", "e", "c", "t", "i", "o", "n", "{" >> \o Rep(X, 12)),
      Text(Rep(X, 20)),
      [ kind |-> "nonstr", text |-> << >> ],
      [ kind |-> "ProviderError", text |-> << >> ] }

\* lines 121-139 on each of these replies
EnhanceChecked == [ reply \in EnhanceReplies |-> checked_text(reply.text) ]

\* what the generator call of JobParser.parse comes to
ParseReplies ==
    { [ kind |-> k ] : k \in { "object", "malformed", "bad_fields",
                                "ProviderError" } }

Vector(v) == [ kind |-> "vector", vec |-> v ]

\* what self.embedding_provider.embed gives: vectors of cosine >= 0 to one
\* another, of two lengths, an empty one and a zero one, or ProviderError
EmbedReplies ==
    { Vector(<< >>), Vector(<< 0, 0 >>), Vector(<< 3, 4 >>),
      Vector(<< 12, 5 >>), Vector(<< 5, 0, 0 >>),
      [ kind |-> "ProviderError", vec |-> << >> ] }

-----------------------------------------------------------------------------
(* CVRewriter.rewrite *)

Init ==
    /\ pc = "start"
    /\ MAX_ITER \in 1..MaxIterBound
    /\ anonymized_cv_text \in CvTexts
    /\ jobs_text \in JobsTexts
    /\ personal_data \in PersonalDatas
    /\ job_text_parts = << >>
    /\ part_idx = 0
    /\ job_descriptions = << >>
    /\ current_cv_text = << >>
    /\ current_similarity = 0
    /\ initial_score = 0
    /\ iteration = 0
    /\ cv_embedding = << >>
    /\ w = NoWrapper
    /\ final = NoneValue
    /\ raised = NoExc
    /\ parse_gen = 0
    /\ enh_gen = 0
    /\ trace = << >>
    /\ embed_calls = 0
    /\ parse_calls = 0
    /\ enh_calls = 0
    /\ enh_done = 0
    /\ last_enhanced = << >>
    /\ compared = -1
    /\ hit = 0
    /\ assembled = FALSE
    /\ pos = << >>
    /\ frames = << >>
    /\ solo = << >>
    /\ cancel_at = NoneValue
    /\ sim_raised = "None"
    /\ call = NoneValue
    /\ result = NoneValue
    /\ scored_text = << >>

inputs == << MAX_ITER, anonymized_cv_text, jobs_text, personal_data >>

\* the first part at or after index i that line 90 lets through
NextPart(parts, i) ==
    LET ok == { j \in i..Len(parts) : Strip(parts[j]) # << >> }
    IN IF ok = {} THEN Len(parts) + 1
       ELSE CHOOSE j \in ok : \A k \in ok : j <= k

\* lines 89-103 from part i on: the call of parse for the next part, or the
\* end of the for loop and the start of the first _calculate_similarity
ParseFrom(parts, i) ==
    LET j == NextPart(parts, i)
    IN /\ part_idx' = j
       /\ IF j <= Len(parts)
          THEN /\ pc' = "parse"
               /\ w' = NewWrapper(ParseMaxRetries, "parse",
                                  [ raw_job_description |-> parts[j] ])
               /\ parse_calls' = parse_calls + 1
               /\ current_cv_text' = current_cv_text
          ELSE /\ pc' = "embed_cv"
               /\ w' = NoWrapper
               /\ parse_calls' = parse_calls
               /\ current_cv_text' = anonymized_cv_text

\* the input checks without the strip
invalid_input_nostrip(cv_text, jobs) ==
    \/ Len(cv_text) < 10
    \/ jobs = << >>
    \/ Len(jobs) < 10

\* lines 69 and 80: the two input checks
invalid_input(cv_text, jobs) ==
    \/ Len(Strip(cv_text)) < 10
    \/ jobs = << >>
    \/ Len(Strip(jobs)) < 10

\* lines 69-93: the two input checks and the split
Validate ==
    /\ pc = "start"
    /\ IF invalid_input(anonymized_cv_text, jobs_text)
       THEN /\ pc' = "raised"
            /\ raised' = Exc("ValueError", 0)
            /\ UNCHANGED << job_text_parts, part_idx, w, parse_calls,
                            current_cv_text >>
       ELSE /\ job_text_parts' = Split(jobs_text, JOB_SEPARATOR)
            /\ ParseFrom(Split(jobs_text, JOB_SEPARATOR), 1)
            /\ raised' = raised
    /\ UNCHANGED << inputs, aux_vars, job_descriptions, current_similarity,
                    initial_score, iteration, cv_embedding, final, parse_gen,
                    enh_gen, trace, embed_calls, enh_calls, enh_done,
                    last_enhanced, compared, hit, assembled >>

\* line 91: one attempt of the wrapped JobParser.parse, and after its return
\* lines 92-93 and the next round of the for loop
ParseAttempt ==
    /\ pc = "parse"
    /\ w.status = "calling"
    /\ \E reply \in ParseReplies :
         LET w2 == wrapper_attempt(w, parse(w.args, reply, w.calls + 1))
         IN /\ parse_gen' = IF parse_calls_provider(w.args)
                            THEN parse_gen + 1 ELSE parse_gen
            /\ CASE w2.status = "sleeping" ->
                      /\ w' = w2
                      /\ UNCHANGED << pc, raised, job_descriptions, part_idx,
                                      parse_calls, current_cv_text >>
                 [] w2.status = "raised" ->
                      /\ w' = w2
                      /\ pc' = "raised"
                      /\ raised' = w2.exc
                      /\ UNCHANGED << job_descriptions, part_idx, parse_calls,
                                      current_cv_text >>
                 [] w2.status = "returned" ->
                      /\ job_descriptions' = Append(job_descriptions, w2.value)
                      /\ ParseFrom(job_text_parts, part_idx + 1)
                      /\ raised' = raised
    /\ UNCHANGED << inputs, aux_vars, job_text_parts, current_similarity, initial_score,
                    iteration, cv_embedding, final, enh_gen, trace,
                    embed_calls, enh_calls, enh_done, last_enhanced, compared,
                    hit, assembled >>

\* retry_decorator.py line 35 inside JobParser.parse
ParseBackoff ==
    /\ pc = "parse"
    /\ w.status = "sleeping"
    /\ w' = wrapper_sleep(w)
    /\ UNCHANGED << pc, inputs, aux_vars, job_text_parts, part_idx, job_descriptions,
                    current_cv_text, current_similarity, initial_score,
                    iteration, cv_embedding, final, raised, parse_gen,
                    enh_gen, trace, embed_calls, parse_calls, enh_calls,
                    enh_done, last_enhanced, compared, hit, assembled >>

\* the stop test with > in place of >=
StopTestStrict(similarity) == similarity > SIMILARITY_THRESHOLD

\* line 144: if current_similarity >= SIMILARITY_THRESHOLD
StopTest(similarity) == similarity >= SIMILARITY_THRESHOLD

\* a loop that runs one round more than the budget
LoopExhausted_off(it) == it = MAX_ITER + 1

\* line 114: for iteration in range(1, MAX_ITER + 1) has no round after it
LoopExhausted(it) == it = MAX_ITER

\* arguments that keep the similarity of the document rewrite was given
enhance_args_initial(it, similarity) ==
    [ anonymized_cv    |-> current_cv_text,
      job_descriptions |-> job_descriptions,
      iteration        |-> it,
      similarity_score |-> initial_score ]

\* lines 120-127: the arguments of self.enhancer.enhance
enhance_args(it, similarity) ==
    [ anonymized_cv    |-> current_cv_text,
      job_descriptions |-> job_descriptions,
      iteration        |-> it,
      similarity_score |-> similarity ]

\* a retry budget that is shared by all the rounds of the loop
CallEnhance_shared(it, similarity) ==
    /\ iteration' = it
    /\ w' = NewWrapper(EnhanceMaxRetries - (enh_gen - enh_done), "enhance",
                       enhance_args(it, similarity))
    /\ enh_calls' = enh_calls + 1
    /\ pc' = "enhance"

\* lines 114-127: the loop goes to round it and calls the wrapped enhance
CallEnhance(it, similarity) ==
    /\ iteration' = it
    /\ w' = NewWrapper(EnhanceMaxRetries, "enhance",
                       enhance_args(it, similarity))
    /\ enh_calls' = enh_calls + 1
    /\ pc' = "enhance"

\* _calculate_similarity has returned similarity: lines 111-127 after the
\* initial one, lines 137-151 and the next round of the loop after the
\* similarity of an enhancement
Scored(similarity) ==
    /\ current_similarity' = similarity
    /\ IF iteration = 0
       THEN /\ initial_score' = similarity
            /\ CallEnhance(1, similarity)
            /\ UNCHANGED << compared, hit >>
       ELSE /\ initial_score' = initial_score
            /\ compared' = similarity
            /\ hit' = IF hit = 0 /\ similarity >= SIMILARITY_THRESHOLD
                      THEN iteration ELSE hit
            /\ IF StopTest(similarity) \/ LoopExhausted(iteration)
               THEN /\ pc' = "assemble"
                    /\ UNCHANGED << iteration, w, enh_calls >>
               ELSE CallEnhance(iteration + 1, similarity)

\* a similarity step with a catch-all handler
similarity_catches_all(e) == TRUE

\* cv_rewriter.py line 209: except (ValueError, TypeError)
similarity_catches(e) == e.type \in { "ValueError", "TypeError" }

\* lines 198-211 when embed raises e: the handler of line 209 returns 0.0
\* for what it catches, and everything else leaves rewrite
EmbedRaised(e) ==
    IF similarity_catches(e)
    THEN /\ Scored(0)
         /\ sim_raised' = e.type
         /\ raised' = raised
    ELSE /\ pc' = "raised"
         /\ raised' = e
         /\ UNCHANGED << current_similarity, initial_score, iteration, w,
                         enh_calls, compared, hit, sim_raised >>

\* line 199: the first embedding call of _calculate_similarity
EmbedCv ==
    /\ pc = "embed_cv"
    /\ embed_calls' = embed_calls + 1
    /\ \E reply \in EmbedReplies :
         IF reply.kind = "ProviderError"
         THEN /\ EmbedRaised(Exc("ProviderError", 0))
              /\ cv_embedding' = cv_embedding
         ELSE /\ pc' = "embed_job"
              /\ raised' = raised
              /\ cv_embedding' = reply.vec
              /\ UNCHANGED << current_similarity, initial_score, iteration, w,
                              enh_calls, compared, hit, sim_raised >>
    /\ scored_text' = current_cv_text
    /\ UNCHANGED << inputs, pos, frames, solo, cancel_at, call, result,
                    job_text_parts, part_idx, job_descriptions,
                    current_cv_text, final, parse_gen, enh_gen, trace,
                    parse_calls, enh_done, last_enhanced, assembled >>

\* line 200 and lines 202-211: the second embedding call and the score; then
\* lines 111-127 after the initial similarity, lines 137-151 and the next
\* round of the loop after the similarity of an enhancement
EmbedJob ==
    /\ pc = "embed_job"
    /\ embed_calls' = embed_calls + 1
    /\ \E reply \in EmbedReplies :
         IF reply.kind = "ProviderError"
         THEN EmbedRaised(Exc("ProviderError", 0))
         ELSE /\ Scored(calculate_similarity(cv_embedding, reply.vec))
              /\ sim_raised' = similarity_caught(cv_embedding, reply.vec)
              /\ raised' = raised
    /\ UNCHANGED << inputs, scored_text, call, result, pos, frames, solo, cancel_at, job_text_parts, part_idx, job_descriptions,
                    current_cv_text, cv_embedding, final, parse_gen, enh_gen,
                    trace, parse_calls, enh_done, last_enhanced, assembled >>

\* a rewrite that falls back on the document it has when enhance gives up
enhance_failure_pc_fallback == "assemble"

\* rewrite has no handler around line 120: what enhance raises leaves rewrite
enhance_failure_pc == "raised"

\* a loop that never replaces the working document
working_document_keep(current, enhanced) == current

\* line 130: current_cv_text = enhanced.content
working_document(current, enhanced) == enhanced.content

\* a loop that scores the new document against the embedding it already has
after_enhance_pc_stale == "embed_job"

\* lines 133-135: after line 130 comes _calculate_similarity from its start
after_enhance_pc == "embed_cv"

\* lines 120-130: one attempt of the wrapped Enhancer.enhance, and after its
\* return the replacement of the working document
EnhanceAttempt ==
    /\ pc = "enhance"
    /\ w.status = "calling"
    /\ \E reply \in EnhanceReplies :
         LET w2 == wrapper_attempt(w, enhance(w.args, reply, EnhanceChecked[reply],
                                               w.calls + 1))
         IN /\ enh_gen' = IF enhance_calls_provider(w.args)
                          THEN enh_gen + 1 ELSE enh_gen
            /\ CASE w2.status = "sleeping" ->
                      /\ w' = w2
                      /\ UNCHANGED << pc, raised, current_cv_text, enh_done,
                                      last_enhanced >>
                 [] w2.status = "raised" ->
                      /\ w' = w2
                      /\ pc' = enhance_failure_pc
                      /\ raised' = w2.exc
                      /\ UNCHANGED << current_cv_text, enh_done, last_enhanced >>
                 [] w2.status = "returned" ->
                      /\ w' = NoWrapper
                      /\ pc' = after_enhance_pc
                      /\ current_cv_text' =
                             working_document(current_cv_text, w2.value)
                      /\ last_enhanced' = w2.value.content
                      /\ enh_done' = enh_done + 1
                      /\ raised' = raised
    /\ UNCHANGED << inputs, aux_vars, job_text_parts, part_idx, job_descriptions,
                    current_similarity, initial_score, iteration, cv_embedding,
                    final, parse_gen, trace, embed_calls, parse_calls,
                    enh_calls, compared, hit, assembled >>

\* retry_decorator.py line 35 inside Enhancer.enhance
EnhanceBackoff ==
    /\ pc = "enhance"
    /\ w.status = "sleeping"
    /\ w' = wrapper_sleep(w)
    /\ UNCHANGED << pc, inputs, aux_vars, job_text_parts, part_idx, job_descriptions,
                    current_cv_text, current_similarity, initial_score,
                    iteration, cv_embedding, final, raised, parse_gen,
                    enh_gen, trace, embed_calls, parse_calls, enh_calls,
                    enh_done, last_enhanced, compared, hit, assembled >>

\* lines 158-184: the assembly, the two scores and the return
Finish ==
    /\ pc = "assemble"
    /\ assembled' = TRUE
    /\ final' = [ assemble(personal_data, current_cv_text, iteration,
                           current_similarity)
                  EXCEPT !.original_score = normalize_original(initial_score),
                         !.enhanced_anonymized_text = current_cv_text,
                         !.final_similarity = normalize_final(@) ]
    /\ pc' = "returned"
    /\ UNCHANGED << inputs, aux_vars, job_text_parts, part_idx, job_descriptions,
                    current_cv_text, current_similarity, initial_score,
                    iteration, cv_embedding, w, raised, parse_gen, enh_gen,
                    trace, embed_calls, parse_calls, enh_calls, enh_done,
                    last_enhanced, compared, hit >>

Next ==
    \/ Validate
    \/ ParseAttempt
    \/ ParseBackoff
    \/ EmbedCv
    \/ EmbedJob
    \/ EnhanceAttempt
    \/ EnhanceBackoff
    \/ Finish

Spec == Init /\ [][Next]_vars

-----------------------------------------------------------------------------
(* retry_on_llm_failure around an arbitrary callable *)

\* what invocation n of the wrapped callable can come to
FuncOutcomes(n) ==
    { Return([ kind |-> "value", call |-> n, v |-> v ]) : v \in 1..2 }
    \cup { Raise(Exc(t, n)) : t \in { "BadLLMResponseError", "ProviderError",
                                      "ValueError", "KeyError" } }

RetryInit ==
    /\ pc = "wrapper"
    /\ \E n \in (0 - BelowZeroBound)..MaxRetriesBound :
         w = NewWrapper(n, "func", NoneValue)
    /\ MAX_ITER = 1
    /\ anonymized_cv_text = << >>
    /\ jobs_text = << >>
    /\ personal_data = << >>
    /\ job_text_parts = << >>
    /\ part_idx = 0
    /\ job_descriptions = << >>
    /\ current_cv_text = << >>
    /\ current_similarity = 0
    /\ initial_score = 0
    /\ iteration = 0
    /\ cv_embedding = << >>
    /\ final = NoneValue
    /\ raised = NoExc
    /\ parse_gen = 0
    /\ enh_gen = 0
    /\ trace = << >>
    /\ embed_calls = 0
    /\ parse_calls = 0
    /\ enh_calls = 0
    /\ enh_done = 0
    /\ last_enhanced = << >>
    /\ compared = -1
    /\ hit = 0
    /\ assembled = FALSE
    /\ pos = << >>
    /\ frames = << >>
    /\ solo = << >>
    /\ cancel_at = NoneValue
    /\ sim_raised = "None"
    /\ call = NoneValue
    /\ result = NoneValue
    /\ scored_text = << >>

rewrite_vars ==
    << inputs, aux_vars, job_text_parts, part_idx, job_descriptions, current_cv_text,
       current_similarity, initial_score, iteration, cv_embedding, final,
       parse_gen, enh_gen, embed_calls, parse_calls, enh_calls, enh_done,
       last_enhanced, compared, hit, assembled >>

\* lines 27-41: one pass of the loop of the wrapper
RetryAttempt ==
    /\ pc = "wrapper"
    /\ w.status = "calling"
    /\ \E out \in FuncOutcomes(w.calls + 1) :
         /\ w' = wrapper_attempt(w, out)
         /\ trace' = Append(trace, out)
    /\ raised' = w'.exc
    /\ UNCHANGED << pc, rewrite_vars >>

\* line 35: the sleep between two attempts
RetryBackoff ==
    /\ pc = "wrapper"
    /\ w.status = "sleeping"
    /\ w' = wrapper_sleep(w)
    /\ UNCHANGED << pc, raised, trace, rewrite_vars >>

RetryNext ==
    \/ RetryAttempt
    \/ RetryBackoff

RetrySpec == RetryInit /\ [][RetryNext]_vars

-----------------------------------------------------------------------------
(* Cancellation of rewrite at its suspension points *)

\* asyncio.CancelledError, raised at the await where the task is suspended
CancelledError == Exc("CancelledError", 0)

\* CancelledError derives from BaseException and not from Exception
IsException(e) == e.type # "CancelledError"

\* a provider whose handler catches BaseException
provider_except_base(e) == Exc("ProviderError", e.id)

\* gemini_provider.py lines 61-63: except Exception as e: raise ProviderError
provider_except(e) ==
    IF IsException(e) THEN Exc("ProviderError", e.id) ELSE e

\* a wrapper whose sleep swallows what is raised in it
wrapper_sleep_raises_swallow(ws, e) == wrapper_sleep(ws)

\* retry_decorator.py lines 30-35: asyncio.sleep stands in the body of the
\* except clause, so what it raises leaves the wrapper
wrapper_sleep_raises(ws, e) == [ws EXCEPT !.status = "raised", !.exc = e]

\* what has been issued and computed when the cancellation is delivered
CancelPoint(gen, embeds) ==
    [ gen_calls          |-> gen,
      embed_calls        |-> embeds,
      current_similarity |-> current_similarity,
      sleeps             |-> Len(w.sleeps),
      failed             |-> w.last_exception ]

\* the task is cancelled while the generator call of a wrapped parse or
\* enhance is awaited (job_parser.py line 51, enhancer.py line 119)
CancelGenerator ==
    /\ pc \in { "parse", "enhance" }
    /\ w.status = "calling"
    /\ cancel_at = NoneValue
    /\ IF pc = "parse" THEN parse_calls_provider(w.args)
                       ELSE enhance_calls_provider(w.args)
    /\ parse_gen' = IF pc = "parse" THEN parse_gen + 1 ELSE parse_gen
    /\ enh_gen' = IF pc = "enhance" THEN enh_gen + 1 ELSE enh_gen
    /\ cancel_at' = CancelPoint(gen_calls + 1, embed_calls)
    /\ LET w2 == wrapper_attempt(w, Raise(provider_except(CancelledError)))
       IN /\ w' = w2
          /\ IF w2.status = "sleeping"
             THEN UNCHANGED << pc, raised >>
             ELSE /\ pc' = "raised"
                  /\ raised' = w2.exc
    /\ UNCHANGED << inputs, scored_text, call, result, pos, frames, solo, sim_raised, job_text_parts, part_idx,
                    job_descriptions, current_cv_text, current_similarity,
                    initial_score, iteration, cv_embedding, final, trace,
                    embed_calls, parse_calls, enh_calls, enh_done,
                    last_enhanced, compared, hit, assembled >>

\* the task is cancelled in the sleep of the wrapper (retry_decorator.py
\* line 35)
CancelBackoff ==
    /\ pc \in { "parse", "enhance" }
    /\ w.status = "sleeping"
    /\ cancel_at = NoneValue
    /\ cancel_at' = CancelPoint(gen_calls, embed_calls)
    /\ LET w2 == wrapper_sleep_raises(w, CancelledError)
       IN /\ w' = w2
          /\ IF w2.status = "raised"
             THEN /\ pc' = "raised"
                  /\ raised' = w2.exc
             ELSE UNCHANGED << pc, raised >>
    /\ UNCHANGED << inputs, scored_text, call, result, pos, frames, solo, sim_raised, job_text_parts, part_idx,
                    job_descriptions, current_cv_text, current_similarity,
                    initial_score, iteration, cv_embedding, final, parse_gen,
                    enh_gen, trace, embed_calls, parse_calls, enh_calls,
                    enh_done, last_enhanced, compared, hit, assembled >>

\* the task is cancelled while an embedding call of _calculate_similarity
\* is awaited (lines 199-200)
CancelEmbed ==
    /\ pc \in { "embed_cv", "embed_job" }
    /\ cancel_at = NoneValue
    /\ embed_calls' = embed_calls + 1
    /\ cancel_at' = CancelPoint(gen_calls, embed_calls + 1)
    /\ LET e == provider_except(CancelledError)
       IN IF similarity_catches(e)
          THEN /\ Scored(0)
               /\ sim_raised' = e.type
               /\ raised' = raised
          ELSE /\ pc' = "raised"
               /\ raised' = e
               /\ UNCHANGED << current_similarity, initial_score, iteration,
                               w, enh_calls, compared, hit, sim_raised >>
    /\ UNCHANGED << inputs, scored_text, call, result, pos, frames, solo, job_text_parts, part_idx,
                    job_descriptions, current_cv_text, cv_embedding, final,
                    parse_gen, enh_gen, trace, parse_calls, enh_done,
                    last_enhanced, assembled >>

CancelNext ==
    \/ Next
    \/ CancelGenerator
    \/ CancelBackoff
    \/ CancelEmbed

CancelSpec == Init /\ [][CancelNext]_vars

-----------------------------------------------------------------------------
(* Concurrent calls of rewrite on one CVRewriter *)

\* the coroutines started on the one instance
Invocations == 1..2

\* lines 40-47 and 85-111: the parameters and the locals of one call of
\* rewrite; __init__ (lines 35-38) is the only place that assigns to self
Frame(cv_text, jobs, pd) ==
    [ anonymized_cv_text |-> cv_text,
      jobs_text          |-> jobs,
      personal_data      |-> pd,
      job_text_parts     |-> << >>,
      part_idx           |-> 0,
      job_descriptions   |-> << >>,
      current_cv_text    |-> << >>,
      current_similarity |-> 0,
      initial_score      |-> 0,
      iteration          |-> 0,
      cv_embedding       |-> << >>,
      w                  |-> NoWrapper,
      final              |-> NoneValue,
      raised             |-> NoExc ]

At(p, s) == [ pc |-> p, loc |-> s ]

\* lines 89-105 on a frame, from part i on
rw_parse_from(s, i) ==
    LET j == NextPart(s.job_text_parts, i)
    IN IF j <= Len(s.job_text_parts)
       THEN At("parse",
               [s EXCEPT !.part_idx = j,
                         !.w = NewWrapper(ParseMaxRetries, "parse",
                                  [ raw_job_description |->
                                        s.job_text_parts[j] ])])
       ELSE At("embed_cv",
               [s EXCEPT !.part_idx = j,
                         !.w = NoWrapper,
                         !.current_cv_text = s.anonymized_cv_text])

\* lines 114-127 on a frame
rw_call_enhance(s, it, similarity) ==
    At("enhance",
       [s EXCEPT !.iteration = it,
                 !.w = NewWrapper(EnhanceMaxRetries, "enhance",
                          [ anonymized_cv    |-> s.current_cv_text,
                            job_descriptions |-> s.job_descriptions,
                            iteration        |-> it,
                            similarity_score |-> similarity ])])

\* lines 163-184 on a frame
rw_finish(s) ==
    At("returned",
       [s EXCEPT !.final =
           [ assemble(s.personal_data, s.current_cv_text, s.iteration,
                      s.current_similarity)
             EXCEPT !.original_score = normalize_original(s.initial_score),
                    !.enhanced_anonymized_text = s.current_cv_text,
                    !.final_similarity = normalize_final(@) ]])

\* rewrite from one suspension point to the next, on the frame s of a
\* coroutine that stands at p and is resumed with reply
rw_step(p, s, reply) ==
    CASE p = "start" ->
           IF invalid_input(s.anonymized_cv_text, s.jobs_text)
           THEN At("raised", [s EXCEPT !.raised = Exc("ValueError", 0)])
           ELSE rw_parse_from(
                    [s EXCEPT !.job_text_parts =
                                  Split(s.jobs_text, JOB_SEPARATOR)], 1)
      [] p \in { "parse", "enhance" } /\ s.w.status = "sleeping" ->
           At(p, [s EXCEPT !.w = wrapper_sleep(s.w)])
      [] p = "parse" /\ s.w.status = "calling" ->
           LET parse_w == wrapper_attempt(s.w, parse(s.w.args, reply, s.w.calls + 1))
           IN IF parse_w.status = "sleeping"
              THEN At(p, [s EXCEPT !.w = parse_w])
              ELSE IF parse_w.status = "raised"
              THEN At("raised", [s EXCEPT !.w = parse_w,
                                          !.raised = parse_w.exc])
              ELSE rw_parse_from(
                       [s EXCEPT !.job_descriptions =
                                     Append(@, parse_w.value)],
                       s.part_idx + 1)
      [] p = "embed_cv" ->
           IF reply.kind = "ProviderError"
           THEN At("raised", [s EXCEPT !.raised = Exc("ProviderError", 0)])
           ELSE At("embed_job", [s EXCEPT !.cv_embedding = reply.vec])
      [] p = "embed_job" ->
           IF reply.kind = "ProviderError"
           THEN At("raised", [s EXCEPT !.raised = Exc("ProviderError", 0)])
           ELSE LET similarity ==
                        calculate_similarity(s.cv_embedding, reply.vec)
                    s1 == [s EXCEPT !.current_similarity = similarity]
                IN IF s.iteration = 0
                   THEN rw_call_enhance(
                            [s1 EXCEPT !.initial_score = similarity],
                            1, similarity)
                   ELSE IF StopTest(similarity) \/ LoopExhausted(s.iteration)
                        THEN rw_finish(s1)
                        ELSE rw_call_enhance(s1, s.iteration + 1, similarity)
      [] p = "enhance" /\ s.w.status = "calling" ->
           LET enhance_w == wrapper_attempt(
                         s.w, enhance(s.w.args, reply, EnhanceChecked[reply],
                                      s.w.calls + 1))
           IN IF enhance_w.status = "sleeping"
              THEN At(p, [s EXCEPT !.w = enhance_w])
              ELSE IF enhance_w.status = "raised"
              THEN At("raised", [s EXCEPT !.w = enhance_w,
                                          !.raised = enhance_w.exc])
              ELSE At(after_enhance_pc,
                      [s EXCEPT !.w = NoWrapper,
                                !.current_cv_text =
                                    working_document(@, enhance_w.value)])

\* the inputs and the replies of the concurrent calls
ConcCvTexts == { Rep(X, 10), << " " >> \o Rep(X, 10) }

ConcJobsText == Rep("j", 10)

ConcParseReplies == { [ kind |-> "object" ] }

ConcEmbedReplies == { Vector(<< 0, 0 >>), Vector(<< 3, 4 >>) }

ConcEnhanceReplies ==
    { Text(DocA), Text(<< " " >> \o DocB \o << "\n" >>),
      [ kind |-> "ProviderError", text |-> << >> ] }

\* locals kept in the one instance, where every coroutine finds the same
frame_of_shared(i) == 1

\* lines 88-141 assign to local names only: every call of the coroutine
\* function has a frame of its own
frame_of(i) == i

ConcInit ==
    /\ pc = "concurrent"
    /\ MAX_ITER = 2
    /\ anonymized_cv_text = << >>
    /\ jobs_text = << >>
    /\ personal_data = << >>
    /\ job_text_parts = << >>
    /\ part_idx = 0
    /\ job_descriptions = << >>
    /\ current_cv_text = << >>
    /\ current_similarity = 0
    /\ initial_score = 0
    /\ iteration = 0
    /\ cv_embedding = << >>
    /\ w = NoWrapper
    /\ final = NoneValue
    /\ raised = NoExc
    /\ parse_gen = 0
    /\ enh_gen = 0
    /\ trace = << >>
    /\ embed_calls = 0
    /\ parse_calls = 0
    /\ enh_calls = 0
    /\ enh_done = 0
    /\ last_enhanced = << >>
    /\ compared = -1
    /\ hit = 0
    /\ assembled = FALSE
    /\ cancel_at = NoneValue
    /\ sim_raised = "None"
    /\ call = NoneValue
    /\ result = NoneValue
    /\ scored_text = << >>
    /\ pos = [ i \in Invocations |-> "start" ]
    /\ frames \in [ Invocations ->
                      { Frame(cv, ConcJobsText, << >>) : cv \in ConcCvTexts } ]
    /\ solo = [ i \in Invocations |-> At("start", frames[i]) ]

single_vars ==
    << pc, inputs, job_text_parts, part_idx, job_descriptions,
       current_cv_text, current_similarity, initial_score, iteration,
       cv_embedding, w, final, raised, parse_gen, enh_gen, trace,
       embed_calls, parse_calls, enh_calls, enh_done, last_enhanced,
       compared, hit, assembled, cancel_at, sim_raised, call, result, scored_text >>

\* the event loop resumes coroutine i with the reply to the call it awaits
Resume(i, reply) ==
    LET r == rw_step(pos[i], frames[frame_of(i)], reply)
    IN /\ pos' = [pos EXCEPT ![i] = r.pc]
       /\ frames' = [frames EXCEPT ![frame_of(i)] = r.loc]
       /\ solo' = [solo EXCEPT ![i] = rw_step(solo[i].pc, solo[i].loc, reply)]
       /\ UNCHANGED single_vars

\* what the await invocation i stands at can come to: the call of rewrite
\* itself (lines 69-91), an attempt of JobParser.parse (line 91) or of
\* Enhancer.enhance (line 120), the end of a sleep of the wrapper
\* (retry_decorator.py line 35), an embedding call (lines 199-200)
Awaited(i) ==
    LET st == frames[frame_of(i)].w.status
    IN CASE pos[i] = "start" -> { NoneValue }
         [] pos[i] = "parse" /\ st = "calling" -> ConcParseReplies
         [] pos[i] = "enhance" /\ st = "calling" -> ConcEnhanceReplies
         [] pos[i] \in { "parse", "enhance" } /\ st = "sleeping" ->
               { NoneValue }
         [] pos[i] \in { "embed_cv", "embed_job" } -> ConcEmbedReplies
         [] OTHER -> { }

\* the event loop resumes one of the coroutines with the outcome of its await
ConcResume ==
    \E i \in Invocations : \E reply \in Awaited(i) : Resume(i, reply)

ConcNext == ConcResume

ConcSpec == ConcInit /\ [][ConcNext]_vars

-----------------------------------------------------------------------------
(* Functions applied on their own *)

\* no rewrite is running
NoRewrite ==
    /\ MAX_ITER = 1
    /\ anonymized_cv_text = << >>
    /\ jobs_text = << >>
    /\ personal_data = << >>
    /\ job_text_parts = << >>
    /\ part_idx = 0
    /\ job_descriptions = << >>
    /\ current_cv_text = << >>
    /\ current_similarity = 0
    /\ initial_score = 0
    /\ iteration = 0
    /\ cv_embedding = << >>
    /\ w = NoWrapper
    /\ final = NoneValue
    /\ raised = NoExc
    /\ parse_gen = 0
    /\ enh_gen = 0
    /\ trace = << >>
    /\ embed_calls = 0
    /\ parse_calls = 0
    /\ enh_calls = 0
    /\ enh_done = 0
    /\ last_enhanced = << >>
    /\ compared = -1
    /\ hit = 0
    /\ assembled = FALSE
    /\ pos = << >>
    /\ frames = << >>
    /\ solo = << >>
    /\ cancel_at = NoneValue
    /\ sim_raised = "None"
    /\ scored_text = << >>

call_vars == << inputs, job_text_parts, part_idx, job_descriptions,
                current_cv_text, current_similarity, initial_score, iteration,
                cv_embedding, w, final, raised, parse_gen, enh_gen, trace,
                embed_calls, parse_calls, enh_calls, enh_done, last_enhanced,
                compared, hit, assembled, pos, frames, solo, cancel_at,
                sim_raised, call, scored_text >>

\* embeddings of whole norm: an empty one, a zero one, one of another length,
\* and vectors of the plane at cosines from -1 to 1 to one another
ScoreVectors ==
    { << >>, << 0, 0 >>, << 5, 0, 0 >>, << 3, 4 >>, << 4, 3 >>, << 12, 5 >>,
      << 24, 7 >>, << -5, 12 >>, << -4, 3 >>, << -3, -4 >> }

ScoreInit ==
    /\ pc = "call"
    /\ NoRewrite
    /\ \E v1 \in ScoreVectors, v2 \in ScoreVectors :
         call = [ fn |-> "_calculate_similarity", cv_emb |-> v1,
                  job_emb |-> v2 ]
    /\ result = NoneValue

\* lines 202-211 of _calculate_similarity on the two embeddings
CalculateSimilarity ==
    /\ pc = "call"
    /\ call.fn = "_calculate_similarity"
    /\ result' \in similarity_outcomes(call.cv_emb, call.job_emb)
    /\ pc' = "returned"
    /\ UNCHANGED call_vars

ScoreNext == CalculateSimilarity

ScoreSpec == ScoreInit /\ [][ScoreNext]_vars

-----------------------------------------------------------------------------
(* Python values as json.loads gives them, and _normalize_to_string_list *)

PyNone == [ t |-> "none", v |-> << >> ]
PyStr(chars) == [ t |-> "str", v |-> chars ]
PyInt(n) == [ t |-> "int", v |-> n ]
PyBool(b) == [ t |-> "bool", v |-> b ]
PyList(items) == [ t |-> "list", v |-> items ]
\* a dict: its entries in insertion order
PyDict(entries) == [ t |-> "dict", v |-> entries ]
Entry(k, x) == [ key |-> k, val |-> x ]

\* bool(value)
Truthy(x) ==
    CASE x.t = "none" -> FALSE
      [] x.t = "bool" -> x.v
      [] x.t = "int"  -> x.v # 0
      [] OTHER        -> x.v # << >>

Digit(n) == << "0", "1", "2", "3", "4", "5", "6", "7", "8", "9" >>[n + 1]

\* str(n) of an int
RECURSIVE IntStr(_)
IntStr(n) ==
    IF n < 0 THEN << "-" >> \o IntStr(0 - n)
    ELSE IF n < 10 THEN << Digit(n) >>
    ELSE IntStr(n \div 10) \o << Digit(n % 10) >>

\* sep.join(parts) on sequences of characters
RECURSIVE JoinChars(_, _)
JoinChars(sep, parts) ==
    IF parts = << >> THEN << >>
    ELSE IF Len(parts) = 1 THEN parts[1]
    ELSE parts[1] \o sep \o JoinChars(sep, Tail(parts))

\* repr(x), quotes inside strings left aside
RECURSIVE repr_of(_)
repr_of(x) ==
    CASE x.t = "none" -> << "N", "o", "n", "e" >>
      [] x.t = "bool" -> IF x.v THEN << "T", "r", "u", "e" >>
                         ELSE << "F", "a", "l", "s", "e" >>
      [] x.t = "int"  -> IntStr(x.v)
      [] x.t = "str"  -> << "'" >> \o x.v \o << "'" >>
      [] x.t = "list" ->
            << "[" >>
            \o JoinChars(<< ",", " " >>,
                         [ i \in 1..Len(x.v) |-> repr_of(x.v[i]) ])
            \o << "]" >>
      [] x.t = "dict" ->
            << "{" >>
            \o JoinChars(<< ",", " " >>,
                         [ i \in 1..Len(x.v) |->
                             << "'" >> \o x.v[i].key \o << "'", ":", " " >>
                             \o repr_of(x.v[i].val) ])
            \o << "}" >>

\* str(x): a str as it is, anything else by its repr
py_str(x) == PyStr(IF x.t = "str" THEN x.v ELSE repr_of(x))

\* sep.join(parts) on Python values: TypeError on an item that is no str
py_join(sep, parts) ==
    IF \E i \in 1..Len(parts) : parts[i].t # "str"
    THEN Raise(Exc("TypeError", 0))
    ELSE Return(PyStr(JoinChars(sep, [ i \in 1..Len(parts) |-> parts[i].v ])))

\* [f(v) for v in seq if keep(v)], given as the pairs << keep, f(v) >>
RECURSIVE Comprehend(_)
Comprehend(pairs) ==
    IF pairs = << >> THEN << >>
    ELSE (IF pairs[1][1] THEN << pairs[1][2] >> ELSE << >>)
         \o Comprehend(Tail(pairs))

\* the result list after a loop whose passes each append or extend, or the
\* first exception a pass raised
RECURSIVE Collect(_)
Collect(passes) ==
    IF passes = << >> THEN Return(<< >>)
    ELSE IF passes[1].kind = "raise" THEN passes[1]
    ELSE LET rest == Collect(Tail(passes))
         IN IF rest.kind = "raise" THEN rest
            ELSE Return(passes[1].value \o rest.value)

SepDash == << " ", "-", " " >>

\* job_parser.py lines 88-97 with the item appended as it is
list_item_raw(item) ==
    IF item.t = "str" THEN Return(<< item >>)
    ELSE IF item.t = "dict"
    THEN LET dict_values ==
                 Comprehend([ i \in 1..Len(item.v) |->
                     << Truthy(item.v[i].val), py_str(item.v[i].val) >> ])
             joined == py_join(SepDash, dict_values)
         IN IF dict_values = << >> THEN Return(<< >>)
            ELSE IF joined.kind = "raise" THEN joined
            ELSE Return(<< joined.value >>)
    ELSE Return(<< item >>)

\* job_parser.py lines 88-97: one pass of the loop over a list
list_item(item) ==
    IF item.t = "str" THEN Return(<< item >>)
    ELSE IF item.t = "dict"
    THEN LET dict_values ==
                 Comprehend([ i \in 1..Len(item.v) |->
                     << Truthy(item.v[i].val), py_str(item.v[i].val) >> ])
             joined == py_join(SepDash, dict_values)
         IN IF dict_values = << >> THEN Return(<< >>)
            ELSE IF joined.kind = "raise" THEN joined
            ELSE Return(<< joined.value >>)
    ELSE Return(<< py_str(item) >>)

\* job_parser.py lines 85-98: the list branch
normalize_list(value) ==
    Collect([ i \in 1..Len(value.v) |-> list_item(value.v[i]) ])

\* job_parser.py lines 103-109: one pass of the loop over a dict; the
\* recursive call of line 107 is on a list, so it is the list branch
\* (or line 82 when the list is empty)
dict_value(x) ==
    IF x.t = "str" THEN Return(<< x >>)
    ELSE IF x.t = "list"
    THEN (IF ~Truthy(x) THEN Return(<< >>) ELSE normalize_list(x))
    ELSE Return(<< py_str(x) >>)

\* JobParser._normalize_to_string_list, lines 75-118
normalize_to_string_list(value) ==
    IF ~Truthy(value) THEN Return(<< >>)
    ELSE IF value.t = "list" THEN normalize_list(value)
    ELSE IF value.t = "dict"
    THEN Collect([ i \in 1..Len(value.v) |-> dict_value(value.v[i].val) ])
    ELSE IF value.t = "str" THEN Return(<< value >>)
    ELSE Return(<< py_str(value) >>)

\* x.strip() of a str
py_strip(x) == PyStr(Strip(x.v))

\* reviewer.py lines 90-93 and 104-107: a non-empty value that is no str,
\* dict or list
reviewer_other(x) ==
    IF Truthy(x)
    THEN LET str_val == py_strip(py_str(x))
         IN IF Truthy(str_val) THEN Return(<< str_val >>) ELSE Return(<< >>)
    ELSE Return(<< >>)

\* reviewer.py lines 83-93: one pass of the loop over a list
reviewer_list_item(item) ==
    IF item.t = "str" /\ Truthy(py_strip(item))
    THEN Return(<< py_strip(item) >>)
    ELSE IF item.t = "dict"
    THEN LET dict_values ==
                 Comprehend([ i \in 1..Len(item.v) |->
                     << Truthy(item.v[i].val),
                        py_strip(py_str(item.v[i].val)) >> ])
             joined == py_join(SepDash, dict_values)
         IN IF dict_values = << >> THEN Return(<< >>)
            ELSE IF joined.kind = "raise" THEN joined
            ELSE Return(<< joined.value >>)
    ELSE reviewer_other(item)

\* reviewer.py lines 80-94: the list branch
reviewer_normalize_list(value) ==
    Collect([ i \in 1..Len(value.v) |-> reviewer_list_item(value.v[i]) ])

\* reviewer.py lines 99-107: one pass of the loop over a dict
reviewer_dict_value(x) ==
    IF x.t = "str" /\ Truthy(py_strip(x)) THEN Return(<< py_strip(x) >>)
    ELSE IF x.t = "list"
    THEN (IF ~Truthy(x) THEN Return(<< >>) ELSE reviewer_normalize_list(x))
    ELSE reviewer_other(x)

\* Reviewer._normalize_to_string_list, lines 70-117
reviewer_normalize_to_string_list(value) ==
    IF ~Truthy(value) THEN Return(<< >>)
    ELSE IF value.t = "list" THEN reviewer_normalize_list(value)
    ELSE IF value.t = "dict"
    THEN Collect([ i \in 1..Len(value.v) |->
                     reviewer_dict_value(value.v[i].val) ])
    ELSE IF value.t = "str" /\ Truthy(py_strip(value))
    THEN Return(<< py_strip(value) >>)
    ELSE LET str_val == py_strip(py_str(value))
         IN IF Truthy(str_val) THEN Return(<< str_val >>) ELSE Return(<< >>)

\* the longest list or dict among the values
MaxItems == 2

Atoms ==
    { PyNone, PyStr(<< >>), PyStr(<< "a" >>), PyStr(<< " " >>), PyInt(0),
      PyInt(7), PyBool(TRUE), PyBool(FALSE) }

Key(i) == << "k", Digit(i) >>

ListsOf(S) == { PyList(q) : q \in UNION { [ 1..n -> S ] : n \in 0..MaxItems } }

DictsOf(S) ==
    { PyDict([ i \in 1..Len(q) |-> Entry(Key(i), q[i]) ]) :
        q \in UNION { [ 1..n -> S ] : n \in 0..MaxItems } }

\* lists and dicts to nest in lists and dicts
Nested ==
    { PyList(<< >>), PyList(<< PyStr(<< "a" >>) >>),
      PyList(<< PyInt(0), PyNone >>),
      PyDict(<< >>), PyDict(<< Entry(Key(1), PyStr(<< "a" >>)) >>),
      PyDict(<< Entry(Key(1), PyNone), Entry(Key(2), PyInt(7)) >>),
      PyDict(<< Entry(Key(1), PyList(<< PyStr(<< "a" >>), PyInt(0) >>)) >>),
      PyDict(<< Entry(Key(1), PyDict(<< Entry(Key(1), PyBool(TRUE)) >>)) >>) }

\* what parsed_data.get(field, []) can be
ListFieldValues ==
    Atoms \cup ListsOf(Atoms \cup Nested) \cup DictsOf(Atoms \cup Nested)

NormalizeInit ==
    /\ pc = "call"
    /\ NoRewrite
    /\ \E f \in { "JobParser", "Reviewer" }, x \in ListFieldValues :
         call = [ fn |-> f, value |-> x ]
    /\ result = NoneValue

\* JobParser._normalize_to_string_list(value)
NormalizeJobField ==
    /\ pc = "call"
    /\ call.fn = "JobParser"
    /\ result' = normalize_to_string_list(call.value)
    /\ pc' = "returned"
    /\ UNCHANGED call_vars

\* Reviewer._normalize_to_string_list(value)
NormalizeReviewField ==
    /\ pc = "call"
    /\ call.fn = "Reviewer"
    /\ result' = reviewer_normalize_to_string_list(call.value)
    /\ pc' = "returned"
    /\ UNCHANGED call_vars

NormalizeNext == NormalizeJobField \/ NormalizeReviewField

NormalizeSpec == NormalizeInit /\ [][NormalizeNext]_vars

-----------------------------------------------------------------------------
(* json.loads and the three _parse_response *)

K_title == << "t", "i", "t", "l", "e" >>
K_description == << "d", "e", "s", "c", "r", "i", "p", "t", "i", "o", "n" >>
K_keywords == << "k", "e", "y", "w", "o", "r", "d", "s" >>
K_personal_info == << "p", "e", "r", "s", "o", "n", "a", "l", "_", "i", "n", "f", "o" >>
K_anonymized_cv == << "a", "n", "o", "n", "y", "m", "i", "z", "e", "d", "_", "c", "v" >>
K_name == << "n", "a", "m", "e" >>
K_improvements == << "i", "m", "p", "r", "o", "v", "e", "m", "e", "n", "t", "s" >>
K_q1 == << "q", "1" >>

DQ == "dq"

\* json.dumps(x): the JSON text of a value, a double quote standing as DQ
RECURSIVE json_dumps(_)
json_dumps(x) ==
    CASE x.t = "none" -> << "n", "u", "l", "l" >>
      [] x.t = "bool" -> IF x.v THEN << "t", "r", "u", "e" >> ELSE << "f", "a", "l", "s", "e" >>
      [] x.t = "int"  -> IntStr(x.v)
      [] x.t = "str"  -> << DQ >> \o x.v \o << DQ >>
      [] x.t = "list" ->
            << "[" >>
            \o JoinChars(<< ",", " " >>,
                         [ i \in 1..Len(x.v) |-> json_dumps(x.v[i]) ])
            \o << "]" >>
      [] x.t = "dict" ->
            << "{" >>
            \o JoinChars(<< ",", " " >>,
                         [ i \in 1..Len(x.v) |->
                             << DQ >> \o x.v[i].key \o << DQ, ":", " " >>
                             \o json_dumps(x.v[i].val) ])
            \o << "}" >>

\* an object of the given keys; a key whose value is Absent is left out
Absent == [ t |-> "absent", v |-> << >> ]

RECURSIVE Object(_)
Object(pairs) ==
    IF pairs = << >> THEN << >>
    ELSE (IF pairs[1][2].t = "absent" THEN << >>
          ELSE << Entry(pairs[1][1], pairs[1][2]) >>)
         \o Object(Tail(pairs))

TitleValues == { Absent, PyStr(<< "a" >>) }
DescriptionValues == { Absent, PyStr(<< >>) }
KeywordsValues == { Absent, PyList(<< PyInt(7) >>) }
PersonalInfoValues ==
    { Absent, PyList(<< >>), PyDict(<< >>),
      PyDict(<< Entry(K_name, PyStr(<< "a" >>)) >>),
      PyDict(<< Entry(K_name, PyList(<< PyInt(7), PyNone >>)) >>),
      PyDict(<< Entry(K_name, PyDict(<< Entry(K_q1, PyInt(7)) >>)) >>) }
AnonymizedCvValues == { Absent, PyStr(<< "c", "v" >>), PyInt(7) }
ImprovementsValues == { Absent, PyList(<< PyStr(<< "a" >>), PyInt(7) >>) }
QueryValues ==
    { Absent, PyStr(<< "a" >>), PyStr(<< " ", "a" >>), PyInt(0),
      PyList(<< PyStr(<< "a" >>), PyInt(7) >>) }

\* the JSON documents a generator can answer with: objects of the keys the
\* three parsers look at, and two documents that are no object
JsonDocs ==
    { PyDict(Object(<< << K_title, ti >>, << K_description, de >>,
                       << K_keywords, kw >>, << K_personal_info, pi >>,
                       << K_anonymized_cv, an >>, << K_improvements, im >>,
                       << K_q1, qu >> >>)) :
        ti \in TitleValues, de \in DescriptionValues, kw \in KeywordsValues,
        pi \in PersonalInfoValues, an \in AnonymizedCvValues,
        im \in ImprovementsValues, qu \in QueryValues }
    \cup { PyList(<< >>), PyStr(<< "a" >>) }

JsonText == [ x \in JsonDocs |-> json_dumps(x) ]

\* each JSON text with its document
JsonPairs == { << JsonText[x], x >> : x \in JsonDocs }

\* the document of each JSON text
JsonParse ==
    [ text \in { p[1] : p \in JsonPairs } |->
        (CHOOSE p \in JsonPairs : p[1] = text)[2] ]

\* json.loads(s) on the texts of JsonDocs, which white space may surround;
\* any other text is a JSONDecodeError
json_loads(s) ==
    IF Strip(s) \in DOMAIN JsonParse THEN Return(JsonParse[Strip(s)])
    ELSE Raise(Exc("JSONDecodeError", 0))

\* s.rfind(c): the 0-based index of the last occurrence, -1 when absent
RFind(s, c) ==
    LET hits == { i \in 1..Len(s) : s[i] = c }
    IN IF hits = {} THEN -1
       ELSE (CHOOSE i \in hits : \A j \in hits : j <= i) - 1

\* job_parser.py lines 126-136: the strips and the removal of the fence
unfence(response0) ==
    LET r1 == Strip(response0)
        r2 == IF StartsWith(r1, FENCE \o << "j", "s", "o", "n" >>) THEN From(r1, 7)
              ELSE IF StartsWith(r1, FENCE) THEN From(r1, 3)
              ELSE r1
        r3 == IF EndsWith(r2, FENCE) THEN SubSeq(r2, 1, Len(r2) - 3) ELSE r2
    IN Strip(r3)

\* job_parser.py lines 139-156: json.loads, then json.loads between the
\* first "{" and the last "}", then the test that the value is a dict
load_object(response) ==
    LET direct == json_loads(response)
        start  == Find(response, << "{" >>)
        end    == RFind(response, "}") + 1
        second == IF start # -1 /\ end # 0
                  THEN json_loads(SubSeq(response, start + 1, end))
                  ELSE Raise(BadLLM(0))
        data   == IF direct.kind = "return" THEN direct ELSE second
    IN IF data.kind = "raise" THEN Raise(BadLLM(0))
       ELSE IF data.value.t # "dict" THEN Raise(BadLLM(0))
       ELSE data

\* key in d
HasKey(d, k) == \E i \in 1..Len(d.v) : d.v[i].key = k

\* d[k]
Get(d, k) == (CHOOSE e \in { d.v[i] : i \in 1..Len(d.v) } : e.key = k).val

\* d.setdefault(k, x)
SetDefault(d, k, x) ==
    IF HasKey(d, k) THEN d ELSE PyDict(Append(d.v, Entry(k, x)))

\* a parser that returns what json.loads gave
load_only(response0) == load_object(unfence(response0))

\* JobParser._parse_response, lines 120-165
parse_response(response0) ==
    LET data == load_object(unfence(response0))
    IN IF data.kind = "raise" THEN data
       ELSE Return(SetDefault(SetDefault(data.value, K_title,
                                         PyStr(<< "P", "o", "s", "i", "t", "i", "o", "n" >>)),
                              K_description, PyStr(<< >>)))

IsScalar(x) == x.t \in { "str", "int", "bool" }

\* anonymizer.py lines 116-126: the value kept for a field of personal_info
normalized_info(value) ==
    IF IsScalar(value) \/ value.t = "none" THEN value
    ELSE IF value.t = "list"
    THEN PyList([ i \in 1..Len(value.v) |->
                    IF IsScalar(value.v[i]) THEN value.v[i]
                    ELSE py_str(value.v[i]) ])
    ELSE py_str(value)

\* BadLLMResponseError("Missing '<key>' field")
MissingField(k) == [ type |-> "BadLLMResponseError", id |-> 0, missing |-> k ]

\* a check that looks for anonymized_cv before personal_info
first_missing_reversed(data) ==
    IF ~HasKey(data, K_anonymized_cv) THEN K_anonymized_cv
    ELSE IF ~HasKey(data, K_personal_info) THEN K_personal_info
    ELSE << >>

\* anonymizer.py lines 95-99: the key the first failing test names, << >>
\* when both keys are there
first_missing(data) ==
    IF ~HasKey(data, K_personal_info) THEN K_personal_info
    ELSE IF ~HasKey(data, K_anonymized_cv) THEN K_anonymized_cv
    ELSE << >>

\* Anonymizer._parse_response, lines 57-142
anonymizer_parse_response(response0) ==
    LET data == load_object(unfence(response0))
    IN IF data.kind = "raise" THEN data
       ELSE IF first_missing(data.value) # << >>
       THEN Raise(MissingField(first_missing(data.value)))
       ELSE
         LET got == Get(data.value, K_personal_info)
             personal_info == IF got.t = "dict" THEN got ELSE PyDict(<< >>)
             normalized_personal_info ==
                 PyDict([ i \in 1..Len(personal_info.v) |->
                            Entry(personal_info.v[i].key,
                                  normalized_info(personal_info.v[i].val)) ])
             cv == Get(data.value, K_anonymized_cv)
             anonymized_cv == IF cv.t = "str" THEN cv ELSE py_str(cv)
         IN Return(PyDict(<< Entry(K_personal_info, normalized_personal_info),
                             Entry(K_anonymized_cv, anonymized_cv) >>))

\* sep.join(str(x) for x in items if x)
join_truthy(sep, items) ==
    PyStr(JoinChars(sep, Comprehend([ i \in 1..Len(items) |->
                            << Truthy(items[i]), py_str(items[i]).v >> ])))

\* query_generator.py lines 93-102: the string a value becomes
query_str(value) ==
    IF value.t = "str" THEN py_strip(value)
    ELSE IF value.t = "dict"
    THEN join_truthy(SepDash, [ i \in 1..Len(value.v) |-> value.v[i].val ])
    ELSE IF value.t = "list" THEN join_truthy(<< " " >>, value.v)
    ELSE py_strip(py_str(value))

\* QueryGenerator._parse_response, lines 53-113
query_parse_response(response0) ==
    LET data == load_object(unfence(response0))
    IN IF data.kind = "raise" THEN data
       ELSE
         LET normalized_data ==
                 Comprehend([ i \in 1..Len(data.value.v) |->
                     << Truthy(query_str(data.value.v[i].val)),
                        Entry(data.value.v[i].key,
                              query_str(data.value.v[i].val)) >> ])
         IN IF Len(normalized_data) < 1 THEN Raise(BadLLM(0))
            ELSE Return(PyDict(normalized_data))

DEFAULT_IMPROVEMENT ==
    PyStr(<< "C", "V", " ", "h", "a", "s", " ", "b", "e", "e", "n", " ", "e", "n", "h", "a", "n", "c", "e", "d", " ", "w", "i", "t", "h", " ", "i", "m", "p", "r", "o", "v", "e", "d", " ", "f", "o", "r", "m", "a", "t", "t", "i", "n", "g", " ", "a", "n", "d", " ", "c", "o", "n", "t", "e", "n", "t" >>)

\* Reviewer._parse_response, lines 119-174
reviewer_parse_response(response0) ==
    LET data == load_object(unfence(response0))
    IN IF data.kind = "raise" THEN data
       ELSE IF ~HasKey(data.value, K_improvements)
       THEN Raise(MissingField(K_improvements))
       ELSE
         LET normalized_improvements ==
                 reviewer_normalize_to_string_list(
                     Get(data.value, K_improvements))
         IN IF normalized_improvements.kind = "raise"
            THEN normalized_improvements
            ELSE IF Len(normalized_improvements.value) < 1
            THEN Return(<< DEFAULT_IMPROVEMENT >>)
            ELSE IF Len(normalized_improvements.value) > 8
            THEN Return(SubSeq(normalized_improvements.value, 1, 8))
            ELSE normalized_improvements

\* what the generator wraps a JSON text in: nothing, white space, a fence,
\* or prose
Wrappings(text) ==
    { text,
      << " " >> \o text \o << "\n" >>,
      FENCE \o << "j", "s", "o", "n" >> \o << "\n" >> \o text \o << "\n" >> \o FENCE,
      << "H", "e", "r", "e" >> \o << ":", " " >> \o text \o << " ", "o", "k" >> }

Responses == UNION { Wrappings(JsonText[x]) : x \in JsonDocs }

ParseInit ==
    /\ pc = "call"
    /\ NoRewrite
    /\ \E f \in { "JobParser", "Anonymizer", "QueryGenerator", "Reviewer" },
          r \in Responses :
         call = [ fn |-> f, response |-> r ]
    /\ result = NoneValue

\* JobParser._parse_response(response)
ParseJobResponse ==
    /\ pc = "call"
    /\ call.fn = "JobParser"
    /\ result' = parse_response(call.response)
    /\ pc' = "returned"
    /\ UNCHANGED call_vars

\* Anonymizer._parse_response(response)
ParseAnonymizerResponse ==
    /\ pc = "call"
    /\ call.fn = "Anonymizer"
    /\ result' = anonymizer_parse_response(call.response)
    /\ pc' = "returned"
    /\ UNCHANGED call_vars

\* QueryGenerator._parse_response(response)
ParseQueryResponse ==
    /\ pc = "call"
    /\ call.fn = "QueryGenerator"
    /\ result' = query_parse_response(call.response)
    /\ pc' = "returned"
    /\ UNCHANGED call_vars

\* Reviewer._parse_response(response)
ParseReviewResponse ==
    /\ pc = "call"
    /\ call.fn = "Reviewer"
    /\ result' = reviewer_parse_response(call.response)
    /\ pc' = "returned"
    /\ UNCHANGED call_vars

ParseNext ==
    \/ ParseJobResponse
    \/ ParseAnonymizerResponse
    \/ ParseQueryResponse
    \/ ParseReviewResponse

ParseSpec == ParseInit /\ [][ParseNext]_vars

-----------------------------------------------------------------------------
(* The thinking block on the way from the generator to a feature *)

CLOSE_THINK == THINK_MARK \o << ">" >>

\* what a generator writes around and between markers
ThinkPieces == { << >>, << "a" >>, << " " >>, << "b", " " >> }

\* the closing marker, and a tag that only begins like it
ThinkMarks == { CLOSE_THINK, THINK_MARK \o << "s" >> }

\* responses with no marker, one, or two
ThinkTexts ==
    ThinkPieces
    \cup { a \o m \o b : a \in ThinkPieces, m \in ThinkMarks,
                          b \in ThinkPieces }
    \cup { a \o m \o b \o n \o c :
             a \in ThinkPieces, m \in ThinkMarks, b \in ThinkPieces,
             n \in ThinkMarks, c \in ThinkPieces }

\* what __call__ of a provider returns for the content of the generator:
\* gemini_provider.py line 59 and cerebras_provider.py line 46 strip,
\* openai_provider.py line 53 does not
provider_returns(provider, content) ==
    IF provider \in { "gemini", "cerebras" }
    THEN strip_thinking_block(content)
    ELSE content

StripInit ==
    /\ pc = "call"
    /\ NoRewrite
    /\ \E p \in { "gemini", "cerebras", "openai" }, t \in ThinkTexts :
         call = [ fn |-> "provider", provider |-> p, content |-> t ]
    /\ result = NoneValue

\* response = await self.provider(prompt)
ProviderAnswers ==
    /\ pc = "call"
    /\ call.fn = "provider"
    /\ result' = provider_returns(call.provider, call.content)
    /\ pc' = "answered"
    /\ UNCHANGED call_vars

\* enhancer.py line 126, job_parser.py line 52: the feature strips the
\* response it got
FeatureStrips ==
    /\ pc = "answered"
    /\ result' = strip_thinking_block(result)
    /\ pc' = "returned"
    /\ UNCHANGED call_vars

StripNext == ProviderAnswers \/ FeatureStrips

StripSpec == StripInit /\ [][StripNext]_vars

-----------------------------------------------------------------------------
(* Assembler._escape_latex applied on its own *)

MaxValueLen == 3

EscapeChars == { "a", BS, "&", "_", "{", "}", "~" }

\* the personal-data values: texts of at most MaxValueLen characters
EscapeTexts ==
    UNION { [ 1..n -> EscapeChars ] : n \in 0..MaxValueLen }

EscapeInit ==
    /\ pc = "call"
    /\ NoRewrite
    /\ \E t \in EscapeTexts : call = [ fn |-> "_escape_latex", text |-> t ]
    /\ result = NoneValue

\* lines 35-63 on a str
EscapeLatex ==
    /\ pc = "call"
    /\ call.fn = "_escape_latex"
    /\ result' = escape_latex(call.text)
    /\ pc' = "returned"
    /\ UNCHANGED call_vars

EscapeNext == EscapeLatex

EscapeSpec == EscapeInit /\ [][EscapeNext]_vars

-----------------------------------------------------------------------------
(* Properties *)

Last(sq) == sq[Len(sq)]

\* C1 (RetrySpec): with max_retries N >= 1 the wrapper invokes the callable
\* at most N times, and no invocation follows one that returned normally:
\* only the last invocation made so far can be a normal return, and once
\* the wrapper has returned there is no further invocation to come.
C1_AtMostNNoneAfterReturn ==
    w.max_retries >= 1 =>
        /\ Len(trace) <= w.max_retries
        /\ w.calls = Len(trace)
        /\ \A i \in 1..(Len(trace) - 1) : trace[i].kind = "raise"
        /\ (trace # << >> /\ Last(trace).kind = "return") =>
               /\ w.status = "returned"
               /\ w.value = Last(trace).value

\* C1 witness: a normal return at the second of three allowed attempts
C1_Witness ==
    /\ w.max_retries = 3
    /\ Len(trace) = 2
    /\ Last(trace).kind = "return"
    /\ w.status = "returned"

\* C6 (RetrySpec): when all N attempts fail with BadLLMResponseError or
\* ProviderError the wrapper raises the very exception of the N-th attempt.
C6_RaisesLastException ==
    ( /\ w.max_retries >= 1
      /\ Len(trace) = w.max_retries
      /\ \A i \in 1..Len(trace) :
            trace[i].kind = "raise" /\ Retryable(trace[i].exc) )
    => /\ w.status = "raised"
       /\ w.exc = Last(trace).exc
       /\ raised = Last(trace).exc

\* C6 witness: three failed attempts, the first and the last of different types
C6_Witness ==
    /\ w.max_retries = 3
    /\ Len(trace) = 3
    /\ \A i \in 1..3 : trace[i].kind = "raise" /\ Retryable(trace[i].exc)
    /\ trace[1].exc.type # trace[3].exc.type
    /\ w.status = "raised"

\* C7 (RetrySpec): an attempt that raises an exception other than
\* BadLLMResponseError and ProviderError is the last invocation, its
\* exception is the one the wrapper raises, and the wrapper has slept only
\* for the failed attempts before it.
C7_OtherExceptionPropagatesAtOnce ==
    \A i \in 1..Len(trace) :
        (trace[i].kind = "raise" /\ ~ Retryable(trace[i].exc)) =>
            /\ i = Len(trace)
            /\ w.status = "raised"
            /\ w.exc = trace[i].exc
            /\ raised = trace[i].exc
            /\ Len(w.sleeps) = i - 1

\* C7 witness: a ValueError at the first of four allowed attempts
C7_Witness ==
    /\ w.max_retries = 4
    /\ Len(trace) = 1
    /\ trace[1].kind = "raise"
    /\ trace[1].exc.type = "ValueError"
    /\ w.status = "raised"
    /\ w.sleeps = << >>

\* C2 (Spec): a rewrite that returns has run exactly MAX_ITER enhancement
\* iterations when no similarity after an enhancement reached the threshold,
\* exactly k when iteration k was the first to reach it, and at least one in
\* either case; at no time has it run more than MAX_ITER.
C2_IterationCount ==
    /\ enh_done <= MAX_ITER
    /\ enh_calls <= MAX_ITER
    /\ pc = "returned" =>
          /\ enh_done >= 1
          /\ enh_done = (IF hit = 0 THEN MAX_ITER ELSE hit)
          /\ enh_calls = enh_done
          /\ iteration = enh_done

\* C2 witness: the initial similarity met the threshold and one iteration
\* was run all the same, with budget left
C2_Witness ==
    /\ pc = "returned"
    /\ initial_score >= SIMILARITY_THRESHOLD
    /\ enh_done = 1
    /\ MAX_ITER > 1

\* C3 (Spec): once the similarity after an iteration is >= the threshold,
\* equality included, the loop is over: no enhancement call is issued after
\* that iteration whatever budget remains.
C3_StopsAtThreshold ==
    hit # 0 =>
        /\ enh_calls = hit
        /\ iteration = hit
        /\ pc \in { "assemble", "returned" }
        /\ compared >= SIMILARITY_THRESHOLD

\* C3 witness: the similarity equals the threshold and budget remains
C3_Witness ==
    /\ pc = "returned"
    /\ compared = SIMILARITY_THRESHOLD
    /\ hit = 1
    /\ MAX_ITER > 1

\* C4 (Spec): the working document is the output of the last enhancement
\* that returned, whatever its score; every enhancement call after the first
\* gets that output as its document; the result carries it.
C4_NoRollback ==
    /\ enh_done >= 1 => current_cv_text = last_enhanced
    /\ (pc = "enhance" /\ w.func = "enhance") =>
          w.args.anonymized_cv =
              (IF w.args.iteration = 1 THEN anonymized_cv_text
               ELSE last_enhanced)
    /\ pc = "returned" => final.enhanced_anonymized_text = last_enhanced

\* C4 witness: the similarity fell below the initial one and the output of
\* that iteration is returned all the same
C4_Witness ==
    /\ pc = "returned"
    /\ compared < initial_score
    /\ final.enhanced_anonymized_text = last_enhanced
    /\ last_enhanced # anonymized_cv_text

C8_ThreeAttemptsPerCall ==
    /\ w.func \in { "parse", "enhance" } =>
          /\ w.max_retries = 3
          /\ w.calls <= 3
          /\ w.status = "calling" => w.calls = w.attempt
    /\ (w.status = "raised" /\ Retryable(w.exc)) =>
          /\ w.calls = 3
          /\ pc = "raised"
          /\ raised = w.exc

\* C8 witness: the second iteration gives up after 3 attempts although the
\* first one had already failed twice
C8_Witness ==
    /\ pc = "raised"
    /\ w.func = "enhance"
    /\ w.status = "raised"
    /\ w.args.iteration = 2
    /\ w.calls = 3
    /\ enh_gen = 6

\* C9 (Spec): when an enhancement call gives up, its exception leaves
\* rewrite: there is no result, no assembly, and no enhancement or embedding
\* call beyond those made before it.
C9_FailureLeavesRewrite ==
    (w.func = "enhance" /\ w.status = "raised") =>
        /\ pc = "raised"
        /\ raised = w.exc
        /\ final = NoneValue
        /\ ~ assembled
        /\ enh_calls = w.args.iteration
        /\ enh_done = w.args.iteration - 1
        /\ embed_calls = 2 * w.args.iteration

\* C9 witness: the second iteration gives up after the first had succeeded
C9_Witness ==
    /\ pc = "raised"
    /\ w.func = "enhance"
    /\ w.status = "raised"
    /\ Retryable(w.exc)
    /\ enh_done = 1
    /\ current_cv_text = last_enhanced

\* C10 (Spec): with a CV text of fewer than 10 characters after trimming, or
\* a jobs text that is empty or has fewer than 10 characters after trimming,
\* rewrite raises ValueError in its first step, with no generator call, no
\* embedding call and no job parsing.
C10_ValidationFailsFast ==
    ( \/ Len(Strip(anonymized_cv_text)) < 10
      \/ jobs_text = << >>
      \/ Len(Strip(jobs_text)) < 10 )
    => /\ pc \in { "start", "raised" }
       /\ pc = "raised" => raised.type = "ValueError"
       /\ gen_calls = 0
       /\ embed_calls = 0
       /\ parse_calls = 0
       /\ job_text_parts = << >>

\* C10 witness: a valid CV with a jobs text that is long enough only before
\* the trimming
C10_Witness ==
    /\ pc = "raised"
    /\ Len(Strip(anonymized_cv_text)) >= 10
    /\ Len(jobs_text) >= 10
    /\ Len(Strip(jobs_text)) < 10
    /\ raised.type = "ValueError"

\* C11 (Spec): the calls of one rewrite come one after the other: an
\* enhancement call is in progress only when every similarity before it is
\* complete (two embedding calls each: one similarity before the first
\* enhancement, one after each enhancement that returned), embedding calls
\* are made only when no enhancement call is in progress, and a rewrite
\* that returns has computed one similarity more than it ran enhancements.
C11_StrictlySequential ==
    /\ pc = "enhance" =>
          /\ w.func = "enhance"
          /\ enh_calls = w.args.iteration
          /\ enh_done = enh_calls - 1
          /\ embed_calls = 2 * enh_calls
    /\ pc \in { "embed_cv", "embed_job" } =>
          /\ w = NoWrapper
          /\ enh_calls = enh_done
          /\ embed_calls = 2 * enh_done + (IF pc = "embed_job" THEN 1 ELSE 0)
    /\ pc \in { "assemble", "returned" } =>
          /\ enh_calls = enh_done
          /\ embed_calls = 2 * (enh_done + 1)

\* C11 witness: the third enhancement call in progress, after three
\* similarities and two enhancements
C11_Witness ==
    /\ pc = "enhance"
    /\ w.args.iteration = 3
    /\ enh_done = 2
    /\ embed_calls = 6

C13_CancellationPropagates ==
    cancel_at # NoneValue =>
        /\ pc = "raised"
        /\ raised = CancelledError
        /\ final = NoneValue
        /\ ~ assembled
        /\ w.last_exception = cancel_at.failed
        /\ Len(w.sleeps) = cancel_at.sleeps
        /\ current_similarity = cancel_at.current_similarity
        /\ gen_calls = cancel_at.gen_calls
        /\ embed_calls = cancel_at.embed_calls

\* C13 witness: a cancellation in the second attempt of the enhancement of
\* the second iteration
C13_Witness ==
    /\ cancel_at # NoneValue
    /\ pc = "raised"
    /\ raised = CancelledError
    /\ w.func = "enhance"
    /\ w.args.iteration = 2
    /\ w.attempt = 1
    /\ w.calls = 2

\* C14 (RetrySpec): the k-th sleep of the wrapper lasts 0.5 * 2^(k-1) time
\* units (one half, then one, then two); there is one sleep between two
\* successive attempts and none after the last attempt, whether it failed
\* or returned.
C14_BackoffDelays ==
    w.max_retries >= 1 =>
        /\ \A k \in 1..Len(w.sleeps) : w.sleeps[k] = 2 ^ (k - 1)
        /\ Len(w.sleeps) <= w.max_retries - 1
        /\ w.status = "calling" => Len(w.sleeps) = w.calls
        /\ w.status \in { "sleeping", "returned", "raised" } =>
               Len(w.sleeps) = w.calls - 1

\* C14 witness: four attempts that all fail, with sleeps of 0.5, 1 and 2
C14_Witness ==
    /\ w.max_retries = 4
    /\ w.status = "raised"
    /\ w.calls = 4
    /\ w.sleeps = << 1, 2, 4 >>
    /\ Retryable(w.exc)

\* a document of trimmed length >= 20 with as many "{" as "}" and one of
\* the five commands
C15_Valid(doc) ==
    /\ Len(Strip(doc)) >= 20
    /\ Count(doc, "{") = Count(doc, "}")
    /\ \E cmd \in { << BS, "s", "e", "c", "t", "i", "o", "n" >>,
                    << BS, "s", "u", "b", "s", "e", "c", "t", "i", "o", "n" >>,
                    << BS, "t", "e", "x", "t", "b", "f" >>,
                    << BS, "t", "e", "x", "t", "i", "t" >>,
                    << BS, "i", "t", "e", "m" >> } : Contains(doc, cmd)

\* the texts, among those an attempt of enhance can be given, that are such
\* documents once stripped
C15_ValidDocs ==
    { doc \in { EnhanceChecked[reply].content : reply \in EnhanceReplies } :
          C15_Valid(doc) }

\* C15 (Spec): every working document after an iteration has trimmed length
\* >= 20, balanced counts of braces and one of \section, \subsection,
\* \textbf, \textit, \item; and whatever text the generator gives an attempt
\* of enhance, the attempt returns the trimmed text when it passes these
\* checks and otherwise raises BadLLMResponseError, after which the wrapper
\* sleeps and retries, or gives up at its third attempt.
C15_EnhancedDocumentValid ==
    /\ enh_done >= 1 =>
          /\ current_cv_text \in C15_ValidDocs
          /\ current_cv_text = last_enhanced
    /\ (pc = "enhance" /\ w.status = "calling"
           /\ w.args.job_descriptions # << >>) =>
          \A reply \in EnhanceReplies :
              reply.kind = "text" =>
                  LET out == enhance(w.args, reply, EnhanceChecked[reply],
                                     w.calls + 1)
                      w2  == wrapper_attempt(w, out)
                  IN IF EnhanceChecked[reply].content \in C15_ValidDocs
                     THEN /\ out.kind = "return"
                          /\ out.value.content = EnhanceChecked[reply].content
                          /\ w2.status = "returned"
                     ELSE /\ out.kind = "raise"
                          /\ out.exc.type = "BadLLMResponseError"
                          /\ w2.status =
                                 (IF w.attempt < 2 THEN "sleeping" ELSE "raised")

\* C15 witness: in the second iteration an output was refused and the
\* wrapper is about to retry, the working document being a valid one
C15_Witness ==
    /\ pc = "enhance"
    /\ w.status = "sleeping"
    /\ w.last_out.exc.type = "BadLLMResponseError"
    /\ enh_done = 1
    /\ current_cv_text \in C15_ValidDocs

\* C16 (Spec): the handler of the similarity step catches ValueError and
\* TypeError; when the last similarity computation raised one (two vectors
\* of different lengths), the similarity is 0.0, that exception has not left
\* rewrite, the working document is still the output of the last
\* enhancement, the next enhancement call is given 0.0, and the loop has
\* ended only by running out of iterations.
C16_SimilarityErrorIsZero ==
    /\ similarity_catches(Exc("ValueError", 0))
    /\ similarity_catches(Exc("TypeError", 0))
    /\ sim_raised # "None" =>
          /\ current_similarity = 0
          /\ raised # Exc(sim_raised, 0)
          /\ enh_done >= 1 => current_cv_text = last_enhanced
          /\ (pc = "enhance" /\ w.status = "calling") =>
                 /\ w.args.similarity_score = 0
                 /\ w.args.anonymized_cv = current_cv_text
          /\ pc \in { "assemble", "returned" } =>
                 /\ iteration = MAX_ITER
                 /\ compared = 0
          /\ pc = "returned" => final.enhanced_anonymized_text = last_enhanced

\* C16 witness: the similarity after the first enhancement raised
\* ValueError and the second iteration is under way on the first one's output
C16_Witness ==
    /\ sim_raised = "ValueError"
    /\ pc = "enhance"
    /\ w.status = "calling"
    /\ w.args.iteration = 2
    /\ initial_score > 0
    /\ current_similarity = 0
    /\ current_cv_text = last_enhanced

\* an empty vector or one of zero norm
C17_Degenerate(v) == v = << >> \/ SumSq(v) = 0

\* the last similarity computation ran to its end, on cv_embedding
C17_Computed ==
    /\ embed_calls >= 2
    /\ embed_calls % 2 = 0
    /\ ~ (pc = "raised" /\ raised = Exc("ProviderError", 0))

\* C17 as stated: with an empty or zero-norm embedding the similarity step
\* gives exactly 0.0 and nothing is raised.
C17_AsStated ==
    (C17_Computed /\ C17_Degenerate(cv_embedding)) =>
        /\ current_similarity = 0
        /\ sim_raised = "None"

\* cosine_similarity and the similarity step on every pair of vectors of
\* which one is empty, or of the same length of which one has zero norm
C17_DegeneratePairs ==
    \A r1, r2 \in EmbedReplies :
        ( /\ r1.kind = "vector" /\ r2.kind = "vector"
          /\ C17_Degenerate(r1.vec) \/ C17_Degenerate(r2.vec)
          /\ r1.vec = << >> \/ r2.vec = << >> \/ Len(r1.vec) = Len(r2.vec) )
        => /\ cosine_similarity(r1.vec, r2.vec) = Return(0)
           /\ calculate_similarity(r1.vec, r2.vec) = 58

\* C17 (Spec), what the code does: with an empty embedding, or a zero-norm one against
\* a vector of its own length, cosine_similarity returns exactly 0.0 and
\* raises nothing, and the similarity step gives the rescaling of 0.0, which
\* is 0.58 and not 0.0; a zero-norm embedding against a vector of another
\* length makes the product raise ValueError, and only then is the score 0.0.
C17_DegenerateScore ==
    /\ C17_DegeneratePairs
    /\ (C17_Computed /\ C17_Degenerate(cv_embedding)) =>
          IF sim_raised = "None"
          THEN current_similarity = 58
          ELSE /\ current_similarity = 0
               /\ sim_raised = "ValueError"
               /\ cv_embedding # << >>

\* C17 witness: the first embedding has zero norm, the similarity was
\* computed without an exception and is 0.58
C17_Witness ==
    /\ C17_Computed
    /\ cv_embedding = << 0, 0 >>
    /\ sim_raised = "None"
    /\ current_similarity = 58
    /\ pc = "enhance"

\* C18 (ScoreSpec): for every pair of embedding vectors the value returned by
\* the similarity step lies in the closed interval [0.0, 1.0].
C18_AsStated ==
    pc = "returned" =>
        /\ result.kind = "float"
        /\ result.value \in 0..100

\* C18 (ScoreSpec), what the code does: the value returned is a float of
\* [0.0, 1.0] whenever similarity * 1.41 + 0.27 is not negative
C18_RealScoreInRange ==
    pc = "returned" =>
        LET c == cosine_similarity(call.cv_emb, call.job_emb)
        IN (c.kind = "raise" \/ ~power_is_complex(c.value)) =>
              /\ result.kind = "float"
              /\ result.value \in 0..100

C18_Witness ==
    /\ pc = "returned"
    /\ call.cv_emb = << 3, 4 >>
    /\ call.job_emb = << -3, -4 >>
    /\ result.kind = "complex"

\* C19 (NormalizeSpec): normalizing None, a string, an integer, a boolean, a
\* list or a dict (and nestings of these) as a list field never raises and
\* returns a list whose every element is a string.
C19_ListOfStrings ==
    pc = "returned" =>
        /\ result.kind = "return"
        /\ \A i \in 1..Len(result.value) : result.value[i].t = "str"

C19_Witness ==
    /\ pc = "returned"
    /\ call.fn = "JobParser"
    /\ call.value = PyList(<< PyDict(<< Entry(Key(1), PyNone),
                                        Entry(Key(2), PyInt(7)) >>),
                              PyInt(0) >>)
    /\ result = Return(<< PyStr(<< "7" >>), PyStr(<< "0" >>) >>)

\* a == b of two parsed values, the order of the keys of a dict left aside
RECURSIVE PyEq(_, _)
PyEq(a, b) ==
    IF a.t # b.t THEN FALSE
    ELSE IF a.t = "list"
    THEN /\ Len(a.v) = Len(b.v)
         /\ \A i \in 1..Len(a.v) : PyEq(a.v[i], b.v[i])
    ELSE IF a.t = "dict"
    THEN /\ Len(a.v) = Len(b.v)
         /\ \A i \in 1..Len(a.v) : \E j \in 1..Len(b.v) :
              /\ a.v[i].key = b.v[j].key
              /\ PyEq(a.v[i].val, b.v[j].val)
    ELSE a.v = b.v

\* the response is the text of a JSON object, white space around it or not
C20_WellFormed ==
    /\ json_loads(call.response).kind = "return"
    /\ json_loads(call.response).value.t = "dict"

C20_Parsed == json_loads(call.response).value

\* the keys each parser treats as core or required are there
C20_HasRequired ==
    CASE call.fn = "JobParser" ->
            HasKey(C20_Parsed, K_title) /\ HasKey(C20_Parsed, K_description)
      [] call.fn = "Anonymizer" ->
            /\ HasKey(C20_Parsed, K_personal_info)
            /\ HasKey(C20_Parsed, K_anonymized_cv)
      [] OTHER -> TRUE

C20_InfoKept(info) ==
    /\ info.t = "dict"
    /\ \A i \in 1..Len(info.v) :
         LET x == info.v[i].val
         IN \/ IsScalar(x) \/ x.t = "none"
            \/ x.t = "list" /\ \A k \in 1..Len(x.v) : IsScalar(x.v[k])

C21_Data == load_object(unfence(call.response))

C22_AfterFirstMarker(text) ==
    IF Contains(text, CLOSE_THINK)
    THEN From(text, Find(text, CLOSE_THINK) + Len(CLOSE_THINK))
    ELSE text

\* C22 (StripSpec), as stated: the text a feature parses is the generator's
\* response with everything up to and including the first closing thinking
\* marker removed, the whole response without a marker (white space around it
\* left aside), also where the provider and the feature both strip.
C22_AsStated ==
    pc = "returned" => result = Strip(C22_AfterFirstMarker(call.content))

\* C22 (StripSpec), what the code does: the statement holds where the
\* stripping is applied once and every "</think" of the response is the
\* beginning of a closing marker, and wherever the response has at most one
\* closing marker and no other "</think"
C22_OneMarker ==
    pc = "returned" =>
        LET rest == C22_AfterFirstMarker(call.content)
            once == call.provider = "openai"
            exact == Find(call.content, THINK_MARK)
                         = Find(call.content, CLOSE_THINK)
        IN (exact /\ (once \/ ~Contains(rest, THINK_MARK))) =>
              result = Strip(rest)

C22_Witness ==
    /\ pc = "returned"
    /\ call.provider = "gemini"
    /\ call.content = << "a" >> \o CLOSE_THINK \o << "b", " " >>
                          \o CLOSE_THINK \o << "a" >>
    /\ result = << "a" >>

\* personal_data has no field with a value, so that assemble builds no header
C23_NoHeader ==
    \A i \in 1..Len(personal_data) : personal_data[i][2] = << >>

\* C23 (Spec): the step that assembles issues no generator and no embedding
\* call; the content it returns ends with the working document character
\* for character and is that document when personal_data yields no header,
\* and enhanced_anonymized_text is the final working document.
C23_AssembleKeepsBody ==
    [][pc = "assemble" =>
         /\ gen_calls' = gen_calls
         /\ embed_calls' = embed_calls
         /\ current_cv_text' = current_cv_text
         /\ EndsWith(final'.content, current_cv_text)
         /\ C23_NoHeader => final'.content = current_cv_text
         /\ final'.enhanced_anonymized_text = current_cv_text]_vars

C23_Witness ==
    /\ pc = "returned"
    /\ assembled
    /\ ~C23_NoHeader
    /\ Count(current_cv_text, "{") > 0
    /\ Len(final.content) > Len(current_cv_text)
    /\ EndsWith(final.content, current_cv_text)

\* C24 (Spec): at every enhancement call of rewrite the iteration argument
\* is the number of enhancements completed plus one, the document argument
\* is the working document, and similarity_score is the similarity computed
\* for that document: the initial one at iteration 1, the one compared with
\* the threshold after iteration k-1 at iteration k.
C24_EnhanceArguments ==
    pc = "enhance" =>
        /\ w.args.iteration = enh_done + 1
        /\ w.args.iteration = iteration
        /\ w.args.anonymized_cv = current_cv_text
        /\ w.args.similarity_score = current_similarity
        /\ scored_text = current_cv_text
        /\ w.args.iteration = 1 => w.args.similarity_score = initial_score
        /\ w.args.iteration > 1 => w.args.similarity_score = compared

C24_Witness ==
    /\ pc = "enhance"
    /\ w.args.iteration = 2
    /\ w.args.similarity_score # initial_score
    /\ w.args.anonymized_cv = last_enhanced

\* the LaTeX escape of one character, as the dict of lines 48-58 and the
\* replacement of line 45 give it
C25_EscapeOf(c) ==
    CASE c = BS  -> ESC_BACKSLASH
      [] c = "~" -> ESC_TILDE
      [] c = "^" -> ESC_CARET
      [] c \in { "&", "%", "$", "#", "_", "{", "}" } -> << BS, c >>
      [] OTHER -> << c >>

RECURSIVE C25_EachEscapedOnce(_)
C25_EachEscapedOnce(text) ==
    IF text = << >> THEN << >>
    ELSE C25_EscapeOf(Head(text)) \o C25_EachEscapedOnce(Tail(text))

\* C25 (EscapeSpec): _escape_latex replaces each occurrence of a special
\* character by its LaTeX escape and escapes no character that a
\* replacement introduced, so a backslash gives exactly \textbackslash{}.
C25_AsStated ==
    (pc = "returned" /\ call.fn = "_escape_latex") =>
        result = C25_EachEscapedOnce(call.text)

\* C25 (EscapeSpec): what holds of the code: a value without a backslash
\* has each special character escaped once.
C25_NoBackslashEscapedOnce ==
    (pc = "returned" /\ call.fn = "_escape_latex"
        /\ ~ InSeq(BS, call.text)) =>
        result = C25_EachEscapedOnce(call.text)

\* C26 (Spec): a failed enhancement attempt changes nothing the loop can
\* observe: over every step that leaves the wrapped enhance of iteration k
\* unfinished (a failed attempt, the wait before a retry) the working
\* document, the current similarity, the iteration counter and the parsed
\* job descriptions are unchanged, and the next attempt is issued with the
\* arguments of the first.
C26_FailedAttemptFrame ==
    [][ (pc = "enhance" /\ w'.func = "enhance") =>
            /\ current_cv_text' = current_cv_text
            /\ current_similarity' = current_similarity
            /\ iteration' = iteration
            /\ job_descriptions' = job_descriptions
            /\ enh_done' = enh_done
            /\ w'.args = w.args
            /\ w'.args = enhance_args(iteration, current_similarity) ]_vars

C26_Witness ==
    /\ pc = "enhance"
    /\ w.status = "calling"
    /\ w.calls = 2
    /\ w.last_exception.type = "BadLLMResponseError"
    /\ iteration = 2
    /\ w.args.anonymized_cv = current_cv_text

\* C27 (Spec): whenever rewrite reaches the enhancement loop the list of
\* parsed job descriptions handed to Enhancer.enhance is non-empty, and the
\* ValueError of enhancer.py line 90 is never raised from inside rewrite.
C27_AsStated ==
    /\ pc = "enhance" => w.args.job_descriptions # << >>
    /\ ~ ( /\ pc = "raised"
           /\ enh_calls > 0
           /\ raised.type = "ValueError" )

\* C27 (Spec): what holds of the code: the list is empty at the enhance
\* call exactly when every part of the split jobs text is blank.
C27_EmptyOnlyWhenAllBlank ==
    pc = "enhance" =>
        ( w.args.job_descriptions = << >>
            <=> \A j \in 1..Len(job_text_parts) :
                    Strip(job_text_parts[j]) = << >> )

\* C28 (Spec): a ProviderError of the embedding provider inside a
\* similarity computation is not turned into a 0.0 score: the handler of
\* line 209 never catches it, it leaves rewrite as raised, nothing was
\* assembled, and from then on no enhancement call and no generator call
\* is issued.
C28_ProviderErrorAborts ==
    /\ sim_raised # "ProviderError"
    /\ (pc = "raised" /\ raised = Exc("ProviderError", 0)) =>
           /\ ~ assembled
           /\ ~ ENABLED EnhanceAttempt
           /\ ~ ENABLED EnhanceBackoff
           /\ ~ ENABLED EmbedCv
           /\ ~ ENABLED EmbedJob

\* the second similarity computation fails on its job embedding after one
\* enhancement was made
C28_Witness ==
    /\ pc = "raised"
    /\ raised = Exc("ProviderError", 0)
    /\ enh_done = 1
    /\ embed_calls = 4
    /\ enh_calls = 1

\* the non-blank parts of the split jobs text among the first n
C29_Parts(n) ==
    Cardinality({ j \in 1..Len(job_text_parts) :
                    j <= n /\ Strip(job_text_parts[j]) # << >> })

\* C29 (Spec): over every pattern of recoverable failures one rewrite
\* issues at most 3 generator calls for each non-blank job part and at most
\* 3 for each enhancement iteration, hence no more than 3 * (P + MAX_ITER)
\* for P parts, and every job-parsing call precedes the first similarity
\* computation and the first enhancement call.
C29_GeneratorCallBudget ==
    /\ [] ( /\ parse_gen <= 3 * C29_Parts(part_idx)
            /\ enh_gen <= 3 * iteration
            /\ iteration <= MAX_ITER
            /\ pc \in { "parse", "enhance" } => w.calls <= 3
            /\ gen_calls <= 3 * (C29_Parts(Len(job_text_parts)) + MAX_ITER)
            /\ (embed_calls > 0 \/ enh_calls > 0) =>
                   /\ pc \notin { "start", "parse" }
                   /\ parse_calls = C29_Parts(Len(job_text_parts)) )
    /\ [][ (embed_calls' > 0 \/ enh_calls' > 0) =>
               /\ parse_gen' = parse_gen
               /\ parse_calls' = parse_calls ]_vars

\* two parts and two iterations that each took three generator calls
C29_Witness ==
    /\ C29_Parts(Len(job_text_parts)) = 2
    /\ parse_gen = 6
    /\ enh_gen = 6
    /\ embed_calls >= 4
    /\ MAX_ITER = 2

\* the wrapper returned the value of a normal return of its last invocation
C30_ReturnedFromCall ==
    /\ w.calls >= 1
    /\ trace # << >>
    /\ Last(trace).kind = "return"
    /\ w.value = Last(trace).value

\* C30 (RetrySpec): for every max_retries, 0 and the negative ones
\* included, the wrapper returns normally only with the value of an
\* invocation that returned normally, and never without an invocation.
C30_AsStated ==
    (pc = "wrapper" /\ w.status = "returned") => C30_ReturnedFromCall

\* C30 (RetrySpec): what holds of the code: the same for max_retries >= 1.
C30_PositiveBudget ==
    (pc = "wrapper" /\ w.status = "returned" /\ w.max_retries >= 1) =>
        C30_ReturnedFromCall
====
